---- MODULE Spec2Model ----
(***************************************************************************)
(* Artist location service: the shared location resolver                   *)
(* (shared/location-resolver.js) and the cache-aware Cloudflare worker     *)
(* (worker/src/index.js).                                                  *)
(*                                                                         *)
(* Strings are sequences of one-character strings, so that lower-casing,   *)
(* trimming, splitting and substring tests are computed, not assumed.      *)
(* A JavaScript null / undefined / "" string is the empty sequence, a null *)
(* coordinate pair is the empty sequence.                                  *)
(***************************************************************************)
EXTENDS Integers, Sequences, FiniteSets, TLC

-----------------------------------------------------------------------------
(* Strings                                                                 *)

LowerOf ==
    ("A" :> "a") @@ ("B" :> "b") @@ ("C" :> "c") @@ ("D" :> "d") @@
    ("E" :> "e") @@ ("F" :> "f") @@ ("G" :> "g") @@ ("H" :> "h") @@
    ("I" :> "i") @@ ("J" :> "j") @@ ("K" :> "k") @@ ("L" :> "l") @@
    ("M" :> "m") @@ ("N" :> "n") @@ ("O" :> "o") @@ ("P" :> "p") @@
    ("Q" :> "q") @@ ("R" :> "r") @@ ("S" :> "s") @@ ("T" :> "t") @@
    ("U" :> "u") @@ ("V" :> "v") @@ ("W" :> "w") @@ ("X" :> "x") @@
    ("Y" :> "y") @@ ("Z" :> "z")

LowerChar(c) == IF c \in DOMAIN LowerOf THEN LowerOf[c] ELSE c

toLowerCase(s) == [i \in 1..Len(s) |-> LowerChar(s[i])]

IsSpace(c) == c = " "

RECURSIVE trimLeft(_)
trimLeft(s) == IF s # <<>> /\ IsSpace(Head(s)) THEN trimLeft(Tail(s)) ELSE s

RECURSIVE trimRight(_)
trimRight(s) ==
    IF s # <<>> /\ IsSpace(s[Len(s)])
    THEN trimRight(SubSeq(s, 1, Len(s) - 1))
    ELSE s

trim(s) == trimRight(trimLeft(s))

\* String.prototype.includes
includes(hay, needle) ==
    \E i \in 0..(Len(hay) - Len(needle)) :
        SubSeq(hay, i + 1, i + Len(needle)) = needle

\* word.slice(0, -2)
sliceOffTwo(word) == SubSeq(word, 1, Len(word) - 2)

RECURSIVE splitWsFrom(_, _, _)
splitWsFrom(s, cur, acc) ==
    IF s = <<>> THEN Append(acc, cur)
    ELSE IF IsSpace(Head(s))
         THEN splitWsFrom(trimLeft(Tail(s)), <<>>, Append(acc, cur))
         ELSE splitWsFrom(Tail(s), Append(cur, Head(s)), acc)

\* s.split(/\s+/)
splitWs(s) == splitWsFrom(s, <<>>, <<>>)

RECURSIVE splitCommaFrom(_, _, _)
splitCommaFrom(s, cur, acc) ==
    IF s = <<>> THEN Append(acc, cur)
    ELSE IF Head(s) = ","
         THEN splitCommaFrom(Tail(s), <<>>, Append(acc, cur))
         ELSE splitCommaFrom(Tail(s), Append(cur, Head(s)), acc)

\* s.split(',')
splitComma(s) == splitCommaFrom(s, <<>>, <<>>)

\* the separator of the template strings `${a}, ${b}`
CommaSpace == <<",", " ">>

-----------------------------------------------------------------------------
(* Area specificity helpers                                                *)

Country == <<"c","o","u","n","t","r","y">>
Subdivision == <<"s","u","b","d","i","v","i","s","i","o","n">>
County == <<"c","o","u","n","t","y">>
CityTypes ==
    { <<"c","i","t","y">>,
      <<"m","u","n","i","c","i","p","a","l","i","t","y">>,
      <<"d","i","s","t","r","i","c","t">>,
      <<"t","o","w","n">>,
      <<"v","i","l","l","a","g","e">>,
      <<"i","s","l","a","n","d">> }

areaSpecificity(areaType) ==
    IF areaType = <<>> THEN -1
    ELSE LET t == toLowerCase(areaType) IN
         IF t = Country THEN 0
         ELSE IF t = Subdivision THEN 1
         ELSE IF t = County THEN 2
         ELSE IF t \in CityTypes THEN 3
         ELSE 1

NoArea == [name |-> <<>>, id |-> <<>>, type |-> <<>>]

\* chooseBestArea that gives ties to the begin-area
chooseBestAreaStrict(mbResult) ==
    IF mbResult.beginArea = <<>> /\ mbResult.area = <<>> THEN NoArea
    ELSE LET beginSpec == IF mbResult.beginArea # <<>>
                          THEN areaSpecificity(mbResult.beginAreaType) ELSE -2
             areaSpec == IF mbResult.area # <<>>
                         THEN areaSpecificity(mbResult.areaType) ELSE -2
         IN  IF mbResult.area # <<>> /\ areaSpec > beginSpec
             THEN [name |-> mbResult.area, id |-> mbResult.areaId,
                   type |-> mbResult.areaType]
             ELSE IF mbResult.beginArea # <<>>
             THEN [name |-> mbResult.beginArea, id |-> mbResult.beginAreaId,
                   type |-> mbResult.beginAreaType]
             ELSE [name |-> mbResult.area, id |-> mbResult.areaId,
                   type |-> mbResult.areaType]

\* mbResult carries beginArea/beginAreaId/beginAreaType and area/areaId/areaType
chooseBestArea(mbResult) ==
    IF mbResult.beginArea = <<>> /\ mbResult.area = <<>> THEN NoArea
    ELSE LET beginSpec == IF mbResult.beginArea # <<>>
                          THEN areaSpecificity(mbResult.beginAreaType) ELSE -2
             areaSpec == IF mbResult.area # <<>>
                         THEN areaSpecificity(mbResult.areaType) ELSE -2
         IN  IF mbResult.area # <<>> /\ areaSpec >= beginSpec
             THEN [name |-> mbResult.area, id |-> mbResult.areaId,
                   type |-> mbResult.areaType]
             ELSE IF mbResult.beginArea # <<>>
             THEN [name |-> mbResult.beginArea, id |-> mbResult.beginAreaId,
                   type |-> mbResult.beginAreaType]
             ELSE [name |-> mbResult.area, id |-> mbResult.areaId,
                   type |-> mbResult.areaType]

isCityLevel(areaType) == areaSpecificity(areaType) >= 3

GeocodeCityTypes ==
    { <<"c","i","t","y">>, <<"t","o","w","n">>, <<"v","i","l","l","a","g","e">>,
      <<"m","u","n","i","c","i","p","a","l","i","t","y">>,
      <<"s","u","b","u","r","b">>,
      <<"n","e","i","g","h","b","o","u","r","h","o","o","d">>,
      <<"d","i","s","t","r","i","c","t">>, <<"b","o","r","o","u","g","h">>,
      <<"l","o","c","a","l","i","t","y">> }

\* geoResult is a GeoResult record; found = FALSE stands for null
isCityLevelGeocode(geoResult) ==
    IF ~geoResult.found \/ geoResult.addressType = <<>> THEN FALSE
    ELSE toLowerCase(geoResult.addressType) \in GeocodeCityTypes

-----------------------------------------------------------------------------
(* Name matching helpers                                                   *)

isExactMatch(searchName, resultName) ==
    trim(toLowerCase(searchName)) = trim(toLowerCase(resultName))

\* missingWords that looks for the whole word only
missingWordsWholeOnly(searchWords, resultLower) ==
    Cardinality({ i \in 1..Len(searchWords) :
        ~includes(resultLower, searchWords[i]) })

\* the number of query words that are missing from the result name
missingWords(searchWords, resultLower) ==
    Cardinality({ i \in 1..Len(searchWords) :
        /\ ~includes(resultLower, searchWords[i])
        /\ ~includes(resultLower, sliceOffTwo(searchWords[i])) })

\* verifyArtistMatch without the single-word branch
verifyArtistMatchAnyLength(searchName, resultName) ==
    LET searchLower == trim(toLowerCase(searchName))
        resultLower == trim(toLowerCase(resultName))
        searchWords == splitWs(searchLower)
    IN  5 * missingWords(searchWords, resultLower) <= 2 * Len(searchWords)

verifyArtistMatch(searchName, resultName) ==
    LET searchLower == trim(toLowerCase(searchName))
        resultLower == trim(toLowerCase(resultName))
        searchWords == splitWs(searchLower)
    IN  IF Len(searchWords) = 1
        THEN searchLower = resultLower
        \* mismatchRatio = missing / total <= 0.4
        ELSE 5 * missingWords(searchWords, resultLower) <= 2 * Len(searchWords)

-----------------------------------------------------------------------------
(* Country code and display name helpers                                   *)

\* areaData carries iso1 ('iso-3166-1-codes') and iso2 ('iso-3166-2-codes')
extractCountryCode(areaData) ==
    IF Len(areaData.iso1) > 0 THEN areaData.iso1[1]
    ELSE IF Len(areaData.iso2) > 0 THEN SubSeq(areaData.iso2[1], 1, 2)
    ELSE <<>>

\* the region names Intl.DisplayNames(['en'], {type: 'region'}) knows here
RegionNames ==
    (<<"A","U">> :> <<"O","z">>) @@ (<<"U","S">> :> <<"U","s","a">>)

\* a well-formed code without a name is returned as it is; a malformed one
\* makes Intl throw, which the function turns into null
countryCodeToName(code) ==
    IF code \in DOMAIN RegionNames THEN RegionNames[code]
    ELSE IF Len(code) = 2 THEN code
    ELSE <<>>

mapTrim(parts) == [i \in 1..Len(parts) |-> trim(parts[i])]

normalizeDisplayName(displayName) ==
    LET parts == mapTrim(splitComma(displayName)) IN
    IF Len(parts) >= 2 THEN parts[1] \o CommaSpace \o parts[Len(parts)]
    ELSE IF parts[1] # <<>> THEN parts[1] ELSE displayName

-----------------------------------------------------------------------------
(* Upstream services.  A world w records what every upstream service       *)
(* answers; a table without an entry for a key answers "nothing found".    *)
(* Every client returns [val, calls]: its value and the requests it made.  *)

Call(svc, arg) == [svc |-> svc, arg |-> arg]

LookupOr(table, key, default) ==
    IF key \in DOMAIN table THEN table[key] ELSE default

NoGeo == [found |-> FALSE, coords |-> <<>>, displayName |-> <<>>,
          addressType |-> <<>>]

NoHit == [ok |-> TRUE, found |-> FALSE]

geocodeWithNominatim(w, query) ==
    LET r == LookupOr(w.nominatim, query, NoHit) IN
    IF ~r.ok \/ ~r.found THEN NoGeo
    ELSE [found |-> TRUE, coords |-> <<r.lat, r.lon>>,
          displayName |-> normalizeDisplayName(r.display_name),
          addressType |-> r.addresstype]

\* returns [lat, lon] (Photon answers [lon, lat]) or the empty sequence
geocodeWithPhoton(w, query) ==
    LET r == LookupOr(w.photon, query, NoHit) IN
    IF ~r.ok \/ ~r.found THEN <<>>
    ELSE LET lon == r.coordinates[1]
             lat == r.coordinates[2]
         IN  <<lat, lon>>

PhotonGeo(coords, name) ==
    [found |-> TRUE, coords |-> coords, displayName |-> name,
     addressType |-> <<>>]

\* geocodeLocation that tries the last segment whether or not there is a comma
geocodeLocationAlwaysCountry(w, locationName) ==
    LET n1 == geocodeWithNominatim(w, locationName)
        c1 == <<Call("nominatim", locationName)>>
        p1 == geocodeWithPhoton(w, locationName)
        c2 == Append(c1, Call("photon", locationName))
        parts == splitComma(locationName)
        country == trim(parts[Len(parts)])
        n2 == geocodeWithNominatim(w, country)
        c3 == Append(c2, Call("nominatim", country))
        p2 == geocodeWithPhoton(w, country)
        c4 == Append(c3, Call("photon", country))
    IN  IF n1.found THEN [val |-> n1, calls |-> c1]
        ELSE IF p1 # <<>>
        THEN [val |-> PhotonGeo(p1, locationName), calls |-> c2]
        ELSE IF n2.found THEN [val |-> n2, calls |-> c3]
        ELSE IF p2 # <<>>
        THEN [val |-> PhotonGeo(p2, country), calls |-> c4]
        ELSE [val |-> NoGeo, calls |-> c4]

geocodeLocation(w, locationName) ==
    LET n1 == geocodeWithNominatim(w, locationName)
        c1 == <<Call("nominatim", locationName)>>
        p1 == geocodeWithPhoton(w, locationName)
        c2 == Append(c1, Call("photon", locationName))
        parts == splitComma(locationName)
        country == trim(parts[Len(parts)])
        n2 == geocodeWithNominatim(w, country)
        c3 == Append(c2, Call("nominatim", country))
        p2 == geocodeWithPhoton(w, country)
        c4 == Append(c3, Call("photon", country))
    IN  IF n1.found THEN [val |-> n1, calls |-> c1]
        ELSE IF p1 # <<>>
        THEN [val |-> PhotonGeo(p1, locationName), calls |-> c2]
        ELSE IF includes(locationName, <<",">>)
        THEN IF n2.found THEN [val |-> n2, calls |-> c3]
             ELSE IF p2 # <<>>
             THEN [val |-> PhotonGeo(p2, country), calls |-> c4]
             ELSE [val |-> NoGeo, calls |-> c4]
        ELSE [val |-> NoGeo, calls |-> c2]

-----------------------------------------------------------------------------
(* MusicBrainz                                                             *)

NoMbResult ==
    [kind |-> "null", beginArea |-> <<>>, beginAreaId |-> <<>>,
     beginAreaType |-> <<>>, area |-> <<>>, areaId |-> <<>>,
     areaType |-> <<>>, mbid |-> <<>>, artistName |-> <<>>,
     exactMatch |-> FALSE]

NoMatch == [NoMbResult EXCEPT !.kind = "noMatch"]

MinScore == 70

\* firstCandidate that verifies the name where the sort-name is to be verified
RECURSIVE firstCandidateByName(_, _)
firstCandidateByName(artistName, artists) ==
    IF artists = <<>> THEN NoMbResult
    ELSE LET artist == Head(artists)
             resultName == artist.name
         IN  IF artist.score < MinScore
             THEN firstCandidateByName(artistName, Tail(artists))
             ELSE IF ~verifyArtistMatch(artistName, resultName)
             THEN firstCandidateByName(artistName, Tail(artists))
             ELSE IF artist.beginArea.name # <<>> \/ artist.area.name # <<>>
             THEN [kind |-> "found",
                   beginArea |-> artist.beginArea.name,
                   beginAreaId |-> artist.beginArea.id,
                   beginAreaType |-> artist.beginArea.type,
                   area |-> artist.area.name,
                   areaId |-> artist.area.id,
                   areaType |-> artist.area.type,
                   mbid |-> artist.id, artistName |-> resultName,
                   exactMatch |-> FALSE]
             ELSE IF isExactMatch(artistName, resultName)
             THEN [NoMbResult EXCEPT !.kind = "found", !.mbid = artist.id,
                                     !.artistName = resultName,
                                     !.exactMatch = TRUE]
             ELSE firstCandidateByName(artistName, Tail(artists))

\* the loop over data.artists: the first candidate that passes the score and
\* name gates and has an area, or is an exact match; NoMbResult if none
RECURSIVE firstCandidate(_, _)
firstCandidate(artistName, artists) ==
    IF artists = <<>> THEN NoMbResult
    ELSE LET artist == Head(artists)
             resultName == artist.name
             sortName == IF artist.sortName # <<>> THEN artist.sortName
                         ELSE resultName
         IN  IF artist.score < MinScore
             THEN firstCandidate(artistName, Tail(artists))
             ELSE IF ~verifyArtistMatch(artistName, sortName)
             THEN firstCandidate(artistName, Tail(artists))
             ELSE IF artist.beginArea.name # <<>> \/ artist.area.name # <<>>
             THEN [kind |-> "found",
                   beginArea |-> artist.beginArea.name,
                   beginAreaId |-> artist.beginArea.id,
                   beginAreaType |-> artist.beginArea.type,
                   area |-> artist.area.name,
                   areaId |-> artist.area.id,
                   areaType |-> artist.area.type,
                   mbid |-> artist.id, artistName |-> resultName,
                   exactMatch |-> FALSE]
             ELSE IF isExactMatch(artistName, resultName)
             THEN [NoMbResult EXCEPT !.kind = "found", !.mbid = artist.id,
                                     !.artistName = resultName,
                                     !.exactMatch = TRUE]
             ELSE firstCandidate(artistName, Tail(artists))

\* fetchFromMusicBrainz that answers null where it is to answer noMatch
fetchFromMusicBrainzNoSignal(w, artistName) ==
    LET response == w.mbSearch
        calls == <<Call("mb_search", artistName)>>
        match == firstCandidate(artistName, response.artists)
    IN  IF ~response.ok THEN [val |-> NoMbResult, calls |-> calls]
        ELSE IF match.kind = "found" THEN [val |-> match, calls |-> calls]
        ELSE [val |-> NoMbResult, calls |-> calls]

fetchFromMusicBrainz(w, artistName) ==
    LET response == w.mbSearch
        calls == <<Call("mb_search", artistName)>>
        hadCandidates == Len(response.artists) > 0
        match == firstCandidate(artistName, response.artists)
    IN  IF ~response.ok THEN [val |-> NoMbResult, calls |-> calls]
        ELSE IF match.kind = "found" THEN [val |-> match, calls |-> calls]
        ELSE IF hadCandidates THEN [val |-> NoMatch, calls |-> calls]
        ELSE [val |-> NoMbResult, calls |-> calls]

NoContext == [country |-> <<>>, subdivision |-> <<>>]

NoResponse == [ok |-> FALSE]

MaxDepth == 5

PartOf == <<"part of">>
Backward == <<"backward">>
SubdivisionType == <<"S","u","b","d","i","v","i","s","i","o","n">>

RECURSIVE resolveAreaContext(_, _, _)
RECURSIVE walkParents(_, _, _, _)

\* the loop over data.relations of resolveAreaContext
walkParents(w, rels, depth, calls) ==
    IF rels = <<>> THEN [val |-> NoContext, calls |-> calls]
    ELSE LET rel == Head(rels)
             code == extractCountryCode(rel.area)
             parent == resolveAreaContext(w, rel.area.id, depth + 1)
             parentContext == parent.val
         IN  IF rel.type = PartOf /\ rel.direction = Backward /\ rel.area.present
             THEN IF code # <<>>
                  THEN [val |-> [country |-> countryCodeToName(code),
                                 subdivision |->
                                     IF rel.area.type = SubdivisionType
                                     THEN rel.area.name ELSE <<>>],
                        calls |-> calls]
                  ELSE IF rel.area.id # <<>>
                  THEN IF parentContext.country # <<>>
                       THEN [val |-> [country |-> parentContext.country,
                                      subdivision |->
                                          IF parentContext.subdivision = <<>>
                                             /\ rel.area.type = SubdivisionType
                                          THEN rel.area.name
                                          ELSE parentContext.subdivision],
                             calls |-> calls \o parent.calls]
                       ELSE walkParents(w, Tail(rels), depth,
                                        calls \o parent.calls)
                  ELSE walkParents(w, Tail(rels), depth, calls)
             ELSE walkParents(w, Tail(rels), depth, calls)

resolveAreaContext(w, areaId, depth) ==
    IF depth > MaxDepth THEN [val |-> NoContext, calls |-> <<>>]
    ELSE LET data == LookupOr(w.areas, areaId, NoResponse)
             calls == <<Call("mb_area", areaId)>>
             code == extractCountryCode(data)
         IN  IF ~data.ok THEN [val |-> NoContext, calls |-> calls]
             ELSE IF code # <<>>
             THEN [val |-> [country |-> countryCodeToName(code),
                            subdivision |-> <<>>],
                   calls |-> calls]
             ELSE walkParents(w, data.relations, depth, calls)

IS_PERSON_TYPE_ID == <<"dd9886f2-1dfe-4270-97db-283f6839a666">>

\* the loop over data.relations of fetchLocationViaRelationships
RECURSIVE followPersonLinks(_, _, _)
followPersonLinks(w, rels, calls) ==
    IF rels = <<>> THEN [val |-> NoMbResult, calls |-> calls]
    ELSE LET rel == Head(rels)
             personMbid == rel.artist.id
             person == LookupOr(w.persons, personMbid, NoResponse)
             calls2 == Append(calls, Call("mb_artist", personMbid))
         IN  IF rel.typeId = IS_PERSON_TYPE_ID /\ rel.artist.present
             THEN IF ~person.ok THEN [val |-> NoMbResult, calls |-> calls2]
                  ELSE IF person.beginArea.name # <<>> \/ person.area.name # <<>>
                  THEN [val |-> [kind |-> "found",
                                 beginArea |-> person.beginArea.name,
                                 beginAreaId |-> person.beginArea.id,
                                 beginAreaType |-> person.beginArea.type,
                                 area |-> person.area.name,
                                 areaId |-> person.area.id,
                                 areaType |-> person.area.type,
                                 mbid |-> personMbid,
                                 artistName |-> person.name,
                                 exactMatch |-> FALSE],
                        calls |-> calls2]
                  ELSE followPersonLinks(w, Tail(rels), calls2)
             ELSE followPersonLinks(w, Tail(rels), calls)

fetchLocationViaRelationships(w, mbid) ==
    LET data == LookupOr(w.artistRels, mbid, NoResponse)
        calls == <<Call("mb_artist_rels", mbid)>>
    IN  IF ~data.ok THEN [val |-> NoMbResult, calls |-> calls]
        ELSE followPersonLinks(w, data.relations, calls)

-----------------------------------------------------------------------------
(* Wikipedia / Wikidata fallbacks                                          *)

NoBindings == [ok |-> TRUE, bindings |-> <<>>]

\* search for the page, then parse its infobox; location is the cleaned value
\* of the first of origin / birth_place / birthplace that the wikitext has
fetchFromWikipedia(w, searchQuery) ==
    LET page == LookupOr(w.wiki, searchQuery,
                         [searchOk |-> TRUE, title |-> <<>>,
                          parseOk |-> TRUE, location |-> <<>>])
        c1 == <<Call("wiki_search", searchQuery)>>
        c2 == Append(c1, Call("wiki_parse", page.title))
    IN  IF ~page.searchOk THEN [val |-> <<>>, calls |-> c1]
        ELSE IF page.title = <<>> THEN [val |-> <<>>, calls |-> c1]
        ELSE IF ~page.parseOk THEN [val |-> <<>>, calls |-> c2]
        ELSE [val |-> page.location, calls |-> c2]

\* the person query (P19 / P740 of a human), then the band query (P740)
fetchFromWikidata(w, artistName) ==
    LET response == w.sparqlPerson
        c1 == <<Call("sparql_person", artistName)>>
        bandResponse == w.sparqlBand
        c2 == Append(c1, Call("sparql_band", artistName))
    IN  IF ~response.ok THEN [val |-> <<>>, calls |-> c1]
        ELSE IF Len(response.bindings) > 0
        THEN [val |-> response.bindings[1], calls |-> c1]
        ELSE IF bandResponse.ok /\ Len(bandResponse.bindings) > 0
        THEN [val |-> bandResponse.bindings[1], calls |-> c2]
        ELSE [val |-> <<>>, calls |-> c2]

fetchSubdivisionCapital(w, subdivisionName) ==
    LET response == LookupOr(w.capitals, subdivisionName, NoBindings)
        calls == <<Call("sparql_capital", subdivisionName)>>
    IN  IF ~response.ok THEN [val |-> <<>>, calls |-> calls]
        ELSE IF Len(response.bindings) > 0
        THEN [val |-> response.bindings[1], calls |-> calls]
        ELSE [val |-> <<>>, calls |-> calls]

-----------------------------------------------------------------------------
(* Geocoding of a chosen area                                              *)

\* the query forms of geocodeMusicBrainzResult after the capital snap, in the
\* order they are tried
\* areaQueries with the country form before the subdivision form
areaQueriesCountryFirst(bestArea, country, subdivision) ==
    (IF subdivision # <<>> /\ country # <<>>
     THEN << bestArea.name \o CommaSpace \o subdivision \o CommaSpace \o country >>
     ELSE <<>>)
    \o (IF country # <<>>
        THEN << bestArea.name \o CommaSpace \o country >> ELSE <<>>)
    \o (IF subdivision # <<>>
        THEN << bestArea.name \o CommaSpace \o subdivision >> ELSE <<>>)
    \o << bestArea.name >>

areaQueries(bestArea, country, subdivision) ==
    (IF subdivision # <<>> /\ country # <<>>
     THEN << bestArea.name \o CommaSpace \o subdivision \o CommaSpace \o country >>
     ELSE <<>>)
    \o (IF subdivision # <<>>
        THEN << bestArea.name \o CommaSpace \o subdivision >> ELSE <<>>)
    \o (IF country # <<>>
        THEN << bestArea.name \o CommaSpace \o country >> ELSE <<>>)
    \o << bestArea.name >>

\* geocode the queries in order; the first result that is not null wins
RECURSIVE firstGeocode(_, _, _)
firstGeocode(w, queries, calls) ==
    IF queries = <<>> THEN [val |-> NoGeo, calls |-> calls]
    ELSE LET g == geocodeLocation(w, Head(queries)) IN
         IF g.val.found THEN [val |-> g.val, calls |-> calls \o g.calls]
         ELSE firstGeocode(w, Tail(queries), calls \o g.calls)

\* geocodeMusicBrainzResult without the capital snap
geocodeMusicBrainzResultNoSnap(w, bestArea) ==
    LET ctx == IF bestArea.id # <<>> THEN resolveAreaContext(w, bestArea.id, 0)
               ELSE [val |-> NoContext, calls |-> <<>>]
        queries == areaQueries(bestArea, ctx.val.country, ctx.val.subdivision)
    IN  firstGeocode(w, queries, ctx.calls)

geocodeMusicBrainzResult(w, bestArea) ==
    LET ctx == IF bestArea.id # <<>> THEN resolveAreaContext(w, bestArea.id, 0)
               ELSE [val |-> NoContext, calls |-> <<>>]
        country == ctx.val.country
        subdivision == ctx.val.subdivision
        cap == fetchSubdivisionCapital(w, bestArea.name)
        capital == cap.val
        query == IF country # <<>> THEN capital \o CommaSpace \o country
                 ELSE capital
        snap == geocodeLocation(w, query)
        queries == areaQueries(bestArea, country, subdivision)
    IN  IF toLowerCase(bestArea.type) = Subdivision
        THEN IF capital # <<>>
             THEN IF snap.val.found
                  THEN [val |-> snap.val,
                        calls |-> ctx.calls \o cap.calls \o snap.calls]
                  ELSE firstGeocode(w, queries,
                                    ctx.calls \o cap.calls \o snap.calls)
             ELSE firstGeocode(w, queries, ctx.calls \o cap.calls)
        ELSE firstGeocode(w, queries, ctx.calls)

-----------------------------------------------------------------------------
(* Main orchestrator                                                       *)

Unknown == <<"U","n","k","n","o","w","n">>

UnknownLocation == [location_name |-> Unknown, location_coord |-> <<>>]

\* location_name: the geocoder's display name, else the raw string
locationOf(geoResult, rawName) ==
    [location_name |-> IF geoResult.found THEN geoResult.displayName
                       ELSE rawName,
     location_coord |-> IF geoResult.found THEN geoResult.coords ELSE <<>>]

geocodeArea(w, bestArea, calls) ==
    LET g == geocodeMusicBrainzResult(w, bestArea) IN
    [val |-> locationOf(g.val, bestArea.name), calls |-> calls \o g.calls]

Musician == <<" ","m","u","s","i","c","i","a","n">>
Band == <<" ","b","a","n","d">>

\* scrapeWikipedia that asks for "<name> band" before "<name> musician"
scrapeWikipediaBandFirst(w, artistName) ==
    LET q1 == fetchFromWikipedia(w, artistName \o Band)
        q2 == fetchFromWikipedia(w, artistName \o Musician)
        q3 == fetchFromWikipedia(w, artistName)
    IN  IF q1.val # <<>> THEN q1
        ELSE IF q2.val # <<>>
        THEN [val |-> q2.val, calls |-> q1.calls \o q2.calls]
        ELSE [val |-> q3.val, calls |-> q1.calls \o q2.calls \o q3.calls]

\* 4e: the three encyclopedia queries, each only if the earlier ones found
\* nothing
scrapeWikipedia(w, artistName) ==
    LET q1 == fetchFromWikipedia(w, artistName \o Musician)
        q2 == fetchFromWikipedia(w, artistName \o Band)
        q3 == fetchFromWikipedia(w, artistName)
    IN  IF q1.val # <<>> THEN q1
        ELSE IF q2.val # <<>>
        THEN [val |-> q2.val, calls |-> q1.calls \o q2.calls]
        ELSE [val |-> q3.val, calls |-> q1.calls \o q2.calls \o q3.calls]

\* geocodeWikiLocation that lets a failed capital geocode replace a direct
\* result that is not city-level
geocodeWikiLocationAlwaysReplace(w, wikiLocation, calls) ==
    LET direct == geocodeLocation(w, wikiLocation)
        locationParts == mapTrim(splitComma(wikiLocation))
        subdivisionName == locationParts[1]
        cap == fetchSubdivisionCapital(w, subdivisionName)
        capital == cap.val
        capitalResult ==
            geocodeLocation(w, capital \o CommaSpace \o wikiLocation)
        c1 == calls \o direct.calls
        c2 == c1 \o cap.calls
        c3 == c2 \o capitalResult.calls
    IN  IF ~direct.val.found \/ ~isCityLevelGeocode(direct.val)
        THEN IF capital # <<>>
             THEN [val |-> locationOf(capitalResult.val, wikiLocation),
                   calls |-> c3]
             ELSE [val |-> locationOf(direct.val, wikiLocation), calls |-> c2]
        ELSE [val |-> locationOf(direct.val, wikiLocation), calls |-> c1]

\* 4f: geocode the scraped location, with the capital snap
geocodeWikiLocation(w, wikiLocation, calls) ==
    LET direct == geocodeLocation(w, wikiLocation)
        locationParts == mapTrim(splitComma(wikiLocation))
        subdivisionName == locationParts[1]
        cap == fetchSubdivisionCapital(w, subdivisionName)
        capital == cap.val
        capitalResult ==
            geocodeLocation(w, capital \o CommaSpace \o wikiLocation)
        c1 == calls \o direct.calls
        c2 == c1 \o cap.calls
        c3 == c2 \o capitalResult.calls
    IN  IF direct.val.found /\ ~isCityLevelGeocode(direct.val)
        THEN IF capital # <<>>
             THEN [val |-> locationOf(IF capitalResult.val.found
                                      THEN capitalResult.val ELSE direct.val,
                                      wikiLocation),
                   calls |-> c3]
             ELSE [val |-> locationOf(direct.val, wikiLocation), calls |-> c2]
        ELSE IF ~direct.val.found
        THEN IF capital # <<>>
             THEN [val |-> locationOf(capitalResult.val, wikiLocation),
                   calls |-> c3]
             ELSE [val |-> locationOf(direct.val, wikiLocation), calls |-> c2]
        ELSE [val |-> locationOf(direct.val, wikiLocation), calls |-> c1]

\* 4c-5: Wikidata, then Wikipedia, then the MusicBrainz area, then Unknown
resolveViaFallbacks(w, artistName, bestArea, calls) ==
    LET wd == fetchFromWikidata(w, artistName)
        wikidataLocation == wd.val
        wdGeo == geocodeLocation(w, wikidataLocation)
        c1 == calls \o wd.calls
        wp == scrapeWikipedia(w, artistName)
        wikiLocation == wp.val
        c2 == c1 \o wp.calls
    IN  IF wikidataLocation # <<>>
        THEN [val |-> locationOf(wdGeo.val, wikidataLocation),
              calls |-> c1 \o wdGeo.calls]
        ELSE IF wikiLocation # <<>>
        THEN geocodeWikiLocation(w, wikiLocation, c2)
        ELSE IF bestArea # NoArea
        THEN geocodeArea(w, bestArea, c2)
        ELSE [val |-> UnknownLocation, calls |-> c2]

\* the else branch of the orchestrator: the chosen area is not city-level
resolveEnhanced(w, artistName, mbResult0, bestArea0, calls) ==
    LET follow == mbResult0.kind = "found" /\ mbResult0.mbid # <<>>
        person == fetchLocationViaRelationships(w, mbResult0.mbid)
        personFound == follow /\ person.val.kind = "found"
        mbResult == IF personFound THEN person.val ELSE mbResult0
        bestArea == IF personFound THEN chooseBestArea(mbResult) ELSE bestArea0
        c1 == IF follow THEN calls \o person.calls ELSE calls
    IN  IF bestArea # NoArea /\ isCityLevel(bestArea.type)
        THEN geocodeArea(w, bestArea, c1)
        ELSE IF mbResult.exactMatch /\ bestArea = NoArea
        THEN [val |-> UnknownLocation, calls |-> c1]
        ELSE resolveViaFallbacks(w, artistName, bestArea, c1)

\* resolveMatched without the direct geocoding of a city-level area
resolveMatchedAlwaysEnhance(w, artistName, mbResult, calls) ==
    LET bestArea == IF mbResult.kind = "found"
                       /\ (mbResult.beginArea # <<>> \/ mbResult.area # <<>>)
                    THEN chooseBestArea(mbResult) ELSE NoArea
    IN  resolveEnhanced(w, artistName, mbResult, bestArea, calls)

\* the orchestrator once the name-match rejection has been ruled out
resolveMatched(w, artistName, mbResult, calls) ==
    LET bestArea == IF mbResult.kind = "found"
                       /\ (mbResult.beginArea # <<>> \/ mbResult.area # <<>>)
                    THEN chooseBestArea(mbResult) ELSE NoArea
    IN  IF bestArea # NoArea /\ isCityLevel(bestArea.type)
        THEN geocodeArea(w, bestArea, calls)
        ELSE resolveEnhanced(w, artistName, mbResult, bestArea, calls)

\* resolveArtistLocation without the mbResult?.noMatch return: a rejection
\* is handled like an empty search result
resolveArtistLocationNoGate(w, artistName) ==
    LET mb == fetchFromMusicBrainz(w, artistName) IN
    resolveMatched(w, artistName,
                   IF mb.val.kind = "noMatch" THEN NoMbResult ELSE mb.val,
                   mb.calls)

resolveArtistLocation(w, artistName) ==
    LET mb == fetchFromMusicBrainz(w, artistName) IN
    IF mb.val.kind = "noMatch"
    THEN [val |-> UnknownLocation, calls |-> mb.calls]
    ELSE resolveMatched(w, artistName, mb.val, mb.calls)

-----------------------------------------------------------------------------
(* The upstream answers the model draws from.  "Ab" is an artist the music  *)
(* metadata knows; "Pa" is a city of the subdivision "Wa" of the country    *)
(* AU ("Oz"), "Pe" is the capital of "Wa".                                  *)

Ab == <<"A","b">>
Zz == <<"Z","z">>
Pa == <<"P","a">>
Wa == <<"W","a">>
Pe == <<"P","e">>
Oz == <<"O","z">>
WaOz == Wa \o CommaSpace \o Oz
PaWaOz == Pa \o CommaSpace \o Wa \o CommaSpace \o Oz
PeWaOz == Pe \o CommaSpace \o Wa \o CommaSpace \o Oz

CityPa == [name |-> Pa, id |-> <<"a1">>, type |-> <<"C","i","t","y">>]
SubdivisionWa == [name |-> Wa, id |-> <<"a2">>, type |-> SubdivisionType]
CountryOz == [name |-> Oz, id |-> <<"a3">>,
              type |-> <<"C","o","u","n","t","r","y">>]

Candidate(name, score, beginArea, area) ==
    [score |-> score, name |-> name, sortName |-> <<>>, id |-> <<"m1">>,
     beginArea |-> beginArea, area |-> area]

SearchOk(artists) == [ok |-> TRUE, artists |-> artists]

MbSearchOptions ==
    { [ok |-> FALSE, artists |-> <<>>],
      SearchOk(<<>>),
      SearchOk(<< Candidate(Zz, 100, CityPa, CountryOz) >>),
      SearchOk(<< Candidate(Ab, 60, CityPa, CountryOz) >>),
      SearchOk(<< Candidate(Ab, 100, NoArea, NoArea) >>),
      SearchOk(<< Candidate(Ab, 100, CityPa, CountryOz) >>),
      SearchOk(<< Candidate(Ab, 100, NoArea, CountryOz) >>),
      SearchOk(<< Candidate(Ab, 100, NoArea, SubdivisionWa) >>),
      SearchOk(<< Candidate(Zz, 100, NoArea, NoArea),
                  Candidate(Ab, 100, CityPa, NoArea) >>) }

PersonLink ==
    [typeId |-> IS_PERSON_TYPE_ID,
     artist |-> [present |-> TRUE, id |-> <<"p1">>, name |-> Zz]]

OtherLink ==
    [typeId |-> <<"member of band">>,
     artist |-> [present |-> TRUE, id |-> <<"p2">>, name |-> Zz]]

Person(beginArea, area) ==
    [ok |-> TRUE, name |-> Zz, beginArea |-> beginArea, area |-> area]

\* what the artist lookups answer: [artistRels, persons]
RelOptions ==
    { [artistRels |-> <<>>, persons |-> <<>>],
      [artistRels |-> (<<"m1">> :> [ok |-> TRUE, relations |-> << OtherLink >>]),
       persons |-> <<>>] }
    \cup
    { [artistRels |->
           (<<"m1">> :> [ok |-> TRUE, relations |-> << OtherLink, PersonLink >>]),
       persons |-> p] :
      p \in { <<>>,
              (<<"p1">> :> Person(NoArea, NoArea)),
              (<<"p1">> :> Person(CityPa, CountryOz)),
              (<<"p1">> :> Person(NoArea, CountryOz)) } }

AreaData(iso1, iso2, relations) ==
    [ok |-> TRUE, iso1 |-> iso1, iso2 |-> iso2, relations |-> relations]

ParentWa ==
    [type |-> PartOf, direction |-> Backward,
     area |-> [present |-> TRUE, id |-> <<"a2">>, name |-> Wa,
               type |-> SubdivisionType, iso1 |-> <<>>,
               iso2 |-> << <<"A","U","-","W","A">> >>]]

AreaTable ==
    (<<"a1">> :> AreaData(<<>>, <<>>, << ParentWa >>))
    @@ (<<"a2">> :> AreaData(<<>>, << <<"A","U","-","W","A">> >>, <<>>))
    @@ (<<"a3">> :> AreaData(<< <<"A","U">> >>, <<>>, <<>>))

AreaOptions == { <<>>, AreaTable }

Bindings(labels) == [ok |-> TRUE, bindings |-> labels]

\* what the SPARQL artist queries answer: [sparqlPerson, sparqlBand]
SparqlOptions ==
    { [sparqlPerson |-> [ok |-> FALSE, bindings |-> <<>>],
       sparqlBand |-> Bindings(<< Pa >>)],
      [sparqlPerson |-> Bindings(<<>>), sparqlBand |-> Bindings(<<>>)],
      [sparqlPerson |-> Bindings(<<>>), sparqlBand |-> Bindings(<< Pa >>)],
      [sparqlPerson |-> Bindings(<< Pa >>), sparqlBand |-> Bindings(<<>>)],
      [sparqlPerson |-> Bindings(<< Unknown >>), sparqlBand |-> Bindings(<<>>)] }

Page(location) ==
    [searchOk |-> TRUE, title |-> Zz, parseOk |-> TRUE, location |-> location]

WikiOptions(artistName) ==
    { <<>>,
      ((artistName \o Musician) :> Page(Pa)),
      (artistName :> Page(WaOz)),
      ((artistName \o Band) :> Page(Unknown)) }

CapitalOptions == { <<>>, (Wa :> Bindings(<< Pe >>)) }

Hit(display_name, addresstype, lat, lon) ==
    [ok |-> TRUE, found |-> TRUE, display_name |-> display_name,
     addresstype |-> addresstype, lat |-> lat, lon |-> lon]

HitPa == Hit(PaWaOz, <<"c","i","t","y">>, 11, 12)
HitPe == Hit(PeWaOz, <<"c","i","t","y">>, 21, 22)
HitWa == Hit(WaOz, <<"s","t","a","t","e">>, 31, 32)
HitOz == Hit(Oz, <<"c","o","u","n","t","r","y">>, 41, 42)

NominatimCities ==
    (Pa :> HitPa) @@ ((Pa \o CommaSpace \o Oz) :> HitPa)
    @@ ((Pa \o CommaSpace \o Wa) :> HitPa) @@ (PaWaOz :> HitPa)
    @@ (Pe :> HitPe) @@ ((Pe \o CommaSpace \o Oz) :> HitPe)
    @@ ((Pe \o CommaSpace \o WaOz) :> HitPe)

NominatimRegions ==
    (Wa :> HitWa) @@ (WaOz :> HitWa) @@ (Oz :> HitOz)

NominatimOptions ==
    { <<>>, NominatimRegions, NominatimCities @@ NominatimRegions,
      (Oz :> HitOz) }

Feature(lon, lat) ==
    [ok |-> TRUE, found |-> TRUE, coordinates |-> <<lon, lat>>]

PhotonTable ==
    (Pa :> Feature(12, 11)) @@ (Wa :> Feature(32, 31))
    @@ (Unknown :> Feature(52, 51))

PhotonOptions == { <<>>, PhotonTable }

WorldsOf(mbs, rels, areas, sparqls, wikis, capitals, nominatims, photons) ==
    { [mbSearch |-> m, artistRels |-> r.artistRels, persons |-> r.persons,
       areas |-> a, sparqlPerson |-> s.sparqlPerson,
       sparqlBand |-> s.sparqlBand, wiki |-> k, capitals |-> c,
       nominatim |-> n, photon |-> p] :
      m \in mbs, r \in rels, a \in areas, s \in sparqls, k \in wikis,
      c \in capitals, n \in nominatims, p \in photons }

\* every combination of the answers above
Worlds(artistName) ==
    WorldsOf(MbSearchOptions, RelOptions, AreaOptions, SparqlOptions,
             WikiOptions(artistName), CapitalOptions, NominatimOptions,
             PhotonOptions)

-----------------------------------------------------------------------------
(* State                                                                   *)

VARIABLES
    rName,      \* resolver run: the artist name given to resolveArtistLocation
    rWorld,     \* resolver run: what the upstream services answer
    rOut,       \* resolver run: [val, calls] once it has returned
    rPhase,     \* resolver run: "start" or "done"
    hasCache,   \* worker: env.ARTIST_CACHE is configured
    cache,      \* worker: the KV namespace, key -> <<>> or <<entry>>
    req,        \* worker: the state of each request being served
    fw          \* one call of fetchWithRetry: loop counter, answers, result

resolverVars == <<rName, rWorld, rOut, rPhase, fw>>

workerVars == <<hasCache, cache, req>>

vars == <<rName, rWorld, rOut, rPhase, hasCache, cache, req, fw>>

\* the largest maxRetries a call of fetchWithRetry is given
MaxRetriesGiven == 4

\* the base of the linear backoff, in ms
RetryDelay == 500

\* the HTTP statuses fetch answers with
Statuses == { 200, 204, 404, 429, 500, 503 }

\* response.ok
isOk(status) == status \in 200..299

\* response.status === 429 || response.status === 503
rateLimited(status) == status = 429 \/ status = 503

\* no call of fetchWithRetry under way
NoFetch ==
    [pc |-> "idle", maxRetries |-> 0, attempt |-> 0, statuses |-> <<>>,
     delays |-> <<>>, ret |-> "none", status |-> 0, given |-> <<>>]

\* maxRetries = 2 when the argument is left out
DefaultMaxRetries == 2

\* fetchWithRetry(url, options, maxRetries) is called
StartFetch ==
    /\ fw.pc = "idle"
    /\ \E given \in { <<>> } \cup { << n >> : n \in 0..MaxRetriesGiven } :
        fw' = [NoFetch EXCEPT
                !.pc = "loop", !.given = given,
                !.maxRetries = IF given = <<>> THEN DefaultMaxRetries
                               ELSE given[1]]
    /\ UNCHANGED <<rName, rWorld, rOut, rPhase, workerVars>>

\* FetchAnswer with the loop test attempt <= maxRetries
FetchAnswerOneMore ==
    /\ fw.pc = "loop"
    /\ fw.attempt <= fw.maxRetries
    /\ \E status \in Statuses :
        fw' = IF isOk(status) \/ ~rateLimited(status)
              THEN [fw EXCEPT !.statuses = Append(@, status),
                              !.ret = "response", !.status = status,
                              !.pc = "done"]
              ELSE [fw EXCEPT !.statuses = Append(@, status),
                              !.delays = Append(@, (fw.attempt + 1) * RetryDelay),
                              !.attempt = @ + 1]
    /\ UNCHANGED <<rName, rWorld, rOut, rPhase, workerVars>>

\* one pass of the loop: fetch answers; an ok response and one that is not
\* rate limited are returned, a rate-limited one is waited out and retried
FetchAnswer ==
    /\ fw.pc = "loop"
    /\ fw.attempt < fw.maxRetries
    /\ \E status \in Statuses :
        fw' = IF isOk(status) \/ ~rateLimited(status)
              THEN [fw EXCEPT !.statuses = Append(@, status),
                              !.ret = "response", !.status = status,
                              !.pc = "done"]
              ELSE [fw EXCEPT !.statuses = Append(@, status),
                              !.delays = Append(@, (fw.attempt + 1) * RetryDelay),
                              !.attempt = @ + 1]
    /\ UNCHANGED <<rName, rWorld, rOut, rPhase, workerVars>>

\* fetch rejects (network error): the exception leaves fetchWithRetry
FetchThrow ==
    /\ fw.pc = "loop"
    /\ fw.attempt < fw.maxRetries
    /\ fw' = [fw EXCEPT !.pc = "threw"]
    /\ UNCHANGED <<rName, rWorld, rOut, rPhase, workerVars>>

\* the loop is over: return null
FetchExhausted ==
    /\ fw.pc = "loop"
    /\ fw.attempt >= fw.maxRetries
    /\ fw' = [fw EXCEPT !.ret = "null", !.pc = "done"]
    /\ UNCHANGED <<rName, rWorld, rOut, rPhase, workerVars>>

\* the names requests carry: two spellings of one artist
ArtistNames == { Ab, <<"a","b">> }

\* the names the orchestrator is run on: those and a name nobody else has
ResolverNames == ArtistNames \cup { <<"C","d">> }

NoOut == [val |-> UnknownLocation, calls |-> <<>>]

-----------------------------------------------------------------------------
(* The worker: cache keys, entries, and what upstream can answer           *)

CACHE_TTL == 30 * 24 * 60 * 60

ArtistPrefix == <<"a","r","t","i","s","t",":">>

\* `artist:${name}`: the key without toLowerCase()
cacheKeyAsTyped(name) == ArtistPrefix \o name

\* `artist:${name.toLowerCase()}`
cacheKey(name) == ArtistPrefix \o toLowerCase(name)

CacheKeys == { cacheKey(n) : n \in ArtistNames }

Entry(name, coord) == [location_name |-> name, location_coord |-> coord]

\* serviceable reduced to `cached`: any entry counts
serviceableAny(cached) == cached # <<>>

\* cached && (cached.location_coord || cached.location_name === 'Unknown')
serviceable(cached) ==
    /\ cached # <<>>
    /\ \/ cached[1].location_coord # <<>>
       \/ cached[1].location_name = Unknown

\* cached.location_name && cached.location_name !== 'Unknown'
\*   && !cached.location_coord
partial(data) ==
    /\ data.location_name # <<>>
    /\ data.location_name # Unknown
    /\ data.location_coord = <<>>

\* what the namespace may hold when a request arrives: nothing, a full entry,
\* a partial entry, the Unknown sentinel, an entry without a name
StoredEntries ==
    { <<>>,
      << Entry(Pa \o CommaSpace \o Oz, <<11, 12>>) >>,
      << Entry(Pa, <<>>) >>,
      << UnknownLocation >>,
      << Entry(<<>>, <<>>) >> }

\* the worlds the worker's resolver calls run against: the artist is unknown
\* to the music metadata, known with a city, or only a namesake is known;
\* the SPARQL endpoint has nothing or a place labelled "Unknown"
WorkerWorlds(artistName) ==
    WorldsOf({ SearchOk(<<>>),
               SearchOk(<< Candidate(artistName, 100, CityPa, CountryOz) >>),
               SearchOk(<< Candidate(Zz, 100, CityPa, CountryOz) >>) },
             { [artistRels |-> <<>>, persons |-> <<>>] },
             { AreaTable },
             { [sparqlPerson |-> Bindings(<<>>), sparqlBand |-> Bindings(<<>>)],
               [sparqlPerson |-> Bindings(<< Unknown >>),
                sparqlBand |-> Bindings(<<>>)] },
             { <<>> }, { <<>> },
             { <<>>, NominatimCities @@ NominatimRegions },
             { <<>>, (Unknown :> Feature(52, 51)) })

\* every result resolveArtistLocation returns for the name in those worlds
ResolveResults ==
    [n \in ArtistNames |->
        { resolveArtistLocation(w, n).val : w \in WorkerWorlds(n) }]

GeocoderWorlds ==
    { [nominatim |-> n, photon |-> p] :
      n \in NominatimOptions, p \in PhotonOptions }

\* every result geocodeLocation can return for the location name
GeocodeResults(locationName) ==
    { geocodeLocation(w, locationName).val : w \in GeocoderWorlds }

\* the upstream services either change between calls (rPhase = "idle": any
\* answer at each call) or answer every request identically (rWorld)
StableUpstream == rPhase = "stable"

\* resolveOutcomes for upstream data that changes between any two calls
resolveOutcomesChanging(artistName) == ResolveResults[artistName]

\* what resolveArtistLocation(artistName) can return now
resolveOutcomes(artistName) ==
    IF StableUpstream THEN { resolveArtistLocation(rWorld, artistName).val }
    ELSE ResolveResults[artistName]

\* what geocodeLocation(locationName) can return now
geocodeOutcomes(locationName) ==
    IF StableUpstream THEN { geocodeLocation(rWorld, locationName).val }
    ELSE GeocodeResults(locationName)

-----------------------------------------------------------------------------
(* The worker: requests                                                    *)

Requests == { "r1" }

\* the request slots of the worker: "r2" is a second request, which arrives
\* after "r1" or runs concurrently with it
AllRequests == { "r1", "r2" }

MaxArtists == 2

\* how many cache operations of one request may throw
MaxFaults == 2

MaxPerRequest == 50

RECURSIVE SeqsUpTo(_, _)
SeqsUpTo(S, n) ==
    IF n = 0 THEN { <<>> }
    ELSE LET shorter == SeqsUpTo(S, n - 1) IN
         shorter \cup { Append(q, x) : q \in shorter, x \in S }

\* an element of the artists array that is not a string (a number, say)
NotAString == << "number" >>

IsString(name) == name # NotAString

\* the artists arrays with elements that may not be strings: one element, or
\* two in either order
MixedArrays ==
    LET elements == ArtistNames \cup { NotAString }
    IN  { << n >> : n \in elements } \cup
        { << n, m >> : n \in elements, m \in elements }

\* the artists arrays of the request bodies: 1..MaxArtists names
ArtistArrays == SeqsUpTo(ArtistNames, MaxArtists) \ { <<>> }

IdleRequest ==
    [pc |-> "idle", artists |-> <<>>, status |-> 0,
     limitedArtists |-> <<>>, k |-> 1,
     cachedResults |-> <<>>, uncachedArtists |-> <<>>, i |-> 1,
     cached |-> <<>>, result |-> UnknownLocation, how |-> "", faults |-> 0,
     stream |-> <<>>, closed |-> FALSE, thrown |-> FALSE,
     cancelled |-> FALSE, method |-> "", path |-> "", deleted |-> <<>>,
     body |-> "", reply |-> "",
     \* history
     cache0 |-> <<>>, pre |-> <<>>, uncachedIdx |-> <<>>, lineLog |-> <<>>,
     galReads |-> <<>>, resolveCalls |-> <<>>, geocodeCalls |-> <<>>,
     puts |-> <<>>, cancelAt |-> <<>>, deletes |-> <<>>, overlapped |-> {}]

Min(a, b) == IF a <= b THEN a ELSE b

\* slice50 that lets one name more through
slice51(artists) == SubSeq(artists, 1, Min(Len(artists), MaxPerRequest + 1))

\* artists.slice(0, 50)
slice50(artists) == SubSeq(artists, 1, Min(Len(artists), MaxPerRequest))

\* cachedResults[name] = cached, in the key order Object.entries gives
setResult(cachedResults, name, data) ==
    IF \E j \in 1..Len(cachedResults) : cachedResults[j].name = name
    THEN [j \in 1..Len(cachedResults) |->
            IF cachedResults[j].name = name
            THEN [name |-> name, data |-> data] ELSE cachedResults[j]]
    ELSE Append(cachedResults, [name |-> name, data |-> data])

\* the line built as { artist: name, location_name: data.location_name }
LineWithoutCoord(name, data) ==
    [artist |-> name, location_name |-> data.location_name,
     location_coord |-> <<>>]

\* JSON.stringify({ artist: name, ...data })
Line(name, data) ==
    [artist |-> name, location_name |-> data.location_name,
     location_coord |-> data.location_coord]

\* env.ARTIST_CACHE.put(key, JSON.stringify(value), {expirationTtl}); after
\* says which of the two puts of getArtistLocation it is
Put(key, value, ok, idx, after) ==
    [key |-> key, value |-> value, expirationTtl |-> CACHE_TTL, ok |-> ok,
     idx |-> idx, after |-> after]

\* a cache operation answers (TRUE) or, within the budget, throws (FALSE)
Outcomes(q) == IF q.faults < MaxFaults THEN BOOLEAN ELSE { TRUE }

Fault(ok) == IF ok THEN 0 ELSE 1

Update(r, change) == req' = [req EXCEPT ![r] = change]

\* POST /api/artists arrives with one of the given non-empty artists arrays
StartPostWith(r, arrays) ==
    /\ req[r].pc = "idle"
    /\ \E artists \in arrays :
        Update(r, [IdleRequest EXCEPT
            !.pc = "precheck", !.artists = artists,
            !.method = "POST", !.path = "/api/artists",
            !.limitedArtists = slice50(artists), !.cache0 = cache])
    /\ UNCHANGED <<hasCache, cache, resolverVars>>

\* POST /api/artists with a valid artists array arrives
StartPost(r) == StartPostWith(r, ArtistArrays)

\* PrecheckGet with uncachedArtists.unshift(name) for uncachedArtists.push(name)
PrecheckGetUnshift(r) ==
    LET q == req[r]
        name == q.limitedArtists[q.k]
        cached == cache[cacheKey(name)]
    IN  /\ q.pc = "precheck"
        /\ hasCache
        /\ q.k <= Len(q.limitedArtists)
        /\ \E ok \in Outcomes(q) :
            IF ok /\ serviceable(cached)
            THEN Update(r, [q EXCEPT
                    !.cachedResults = setResult(@, name, cached[1]),
                    !.k = @ + 1,
                    !.pre = Append(@, [name |-> name, found |-> "cached",
                                       entry |-> cached, ok |-> TRUE])])
            ELSE Update(r, [q EXCEPT
                    !.uncachedArtists = <<name>> \o @,
                    !.uncachedIdx = <<q.k>> \o @,
                    !.faults = @ + Fault(ok),
                    !.k = @ + 1,
                    !.pre = Append(@, [name |-> name, found |-> "uncached",
                                       entry |-> IF ok THEN cached ELSE <<>>,
                                       ok |-> ok])])
        /\ UNCHANGED <<hasCache, cache, resolverVars>>

\* PrecheckGet without the else: a name with a serviceable entry is pushed to
\* uncachedArtists as well
PrecheckGetPushAll(r) ==
    LET q == req[r]
        name == q.limitedArtists[q.k]
        cached == cache[cacheKey(name)]
    IN  /\ q.pc = "precheck"
        /\ hasCache
        /\ q.k <= Len(q.limitedArtists)
        /\ \E ok \in Outcomes(q) :
            IF ok /\ serviceable(cached)
            THEN Update(r, [q EXCEPT
                    !.cachedResults = setResult(@, name, cached[1]),
                    !.uncachedArtists = Append(@, name),
                    !.uncachedIdx = Append(@, q.k),
                    !.k = @ + 1,
                    !.pre = Append(@, [name |-> name, found |-> "cached",
                                       entry |-> cached, ok |-> TRUE])])
            ELSE Update(r, [q EXCEPT
                    !.uncachedArtists = Append(@, name),
                    !.uncachedIdx = Append(@, q.k),
                    !.faults = @ + Fault(ok),
                    !.k = @ + 1,
                    !.pre = Append(@, [name |-> name, found |-> "uncached",
                                       entry |-> IF ok THEN cached ELSE <<>>,
                                       ok |-> ok])])
        /\ UNCHANGED <<hasCache, cache, resolverVars>>

\* one iteration of the pre-check loop: a cache get that answers or throws
PrecheckGet(r) ==
    LET q == req[r]
        name == q.limitedArtists[q.k]
        cached == cache[cacheKey(name)]
    IN  /\ q.pc = "precheck"
        /\ hasCache
        /\ q.k <= Len(q.limitedArtists)
        /\ IsString(name)
        /\ \E ok \in Outcomes(q) :
            IF ok /\ serviceable(cached)
            THEN Update(r, [q EXCEPT
                    !.cachedResults = setResult(@, name, cached[1]),
                    !.k = @ + 1,
                    !.pre = Append(@, [name |-> name, found |-> "cached",
                                       entry |-> cached, ok |-> TRUE])])
            ELSE Update(r, [q EXCEPT
                    !.uncachedArtists = Append(@, name),
                    !.uncachedIdx = Append(@, q.k),
                    !.faults = @ + Fault(ok),
                    !.k = @ + 1,
                    !.pre = Append(@, [name |-> name, found |-> "uncached",
                                       entry |-> IF ok THEN cached ELSE <<>>,
                                       ok |-> ok])])
        /\ UNCHANGED <<hasCache, cache, resolverVars>>

\* name.toLowerCase() of an element that is not a string throws before the
\* inner try: the request is answered 500 and nothing is streamed
PrecheckThrow(r) ==
    LET q == req[r] IN
    /\ q.pc = "precheck"
    /\ hasCache
    /\ q.k <= Len(q.limitedArtists)
    /\ ~IsString(q.limitedArtists[q.k])
    /\ Update(r, [q EXCEPT !.status = 500, !.pc = "done"])
    /\ UNCHANGED <<hasCache, cache, resolverVars>>

\* without a cache every name is uncached
PrecheckNoCache(r) ==
    LET q == req[r] IN
    /\ q.pc = "precheck"
    /\ ~hasCache
    /\ Update(r, [q EXCEPT
            !.uncachedArtists = q.limitedArtists,
            !.uncachedIdx = [j \in 1..Len(q.limitedArtists) |-> j],
            !.k = Len(q.limitedArtists) + 1,
            !.pre = [j \in 1..Len(q.limitedArtists) |->
                        [name |-> q.limitedArtists[j], found |-> "uncached",
                         entry |-> <<>>, ok |-> TRUE]],
            !.pc = "flush"])
    /\ UNCHANGED <<hasCache, cache, resolverVars>>

PrecheckDone(r) ==
    LET q == req[r] IN
    /\ q.pc = "precheck"
    /\ hasCache
    /\ q.k > Len(q.limitedArtists)
    /\ Update(r, [q EXCEPT !.pc = "flush"])
    /\ UNCHANGED <<hasCache, cache, resolverVars>>

\* where getArtistLocation starts: at the cache read if a cache is configured
callPc == IF hasCache THEN "get" ELSE "resolve"

\* the stream starts: every cached result is enqueued at once
Flush(r) ==
    LET q == req[r]
        lines == [j \in 1..Len(q.cachedResults) |->
                    Line(q.cachedResults[j].name, q.cachedResults[j].data)]
        logs == [j \in 1..Len(q.cachedResults) |->
                    [src |-> "flush", how |-> "cached", idx |-> 0]]
    IN  /\ q.pc = "flush"
        /\ Update(r, [q EXCEPT
                !.status = 200,
                !.stream = @ \o lines,
                !.lineLog = @ \o logs,
                !.pc = IF Len(q.uncachedArtists) >= 1 THEN callPc
                       ELSE "close"])
        /\ UNCHANGED <<hasCache, cache, resolverVars>>

\* GalGet without the partial-entry branch: a partial entry is a miss and
\* goes to the resolver
GalGetPartialIsMiss(r) ==
    LET q == req[r]
        name == q.uncachedArtists[q.i]
        cached == cache[cacheKey(name)]
        read(ok) == [idx |-> q.uncachedIdx[q.i], ok |-> ok,
                     entry |-> IF ok THEN cached ELSE <<>>]
    IN  /\ q.pc = "get"
        /\ \E ok \in Outcomes(q) :
            IF ok /\ cached # <<>> /\ ~partial(cached[1])
            THEN Update(r, [q EXCEPT !.cached = cached,
                                     !.galReads = Append(@, read(ok)),
                                     !.result = cached[1],
                                     !.how = "hit", !.pc = "enqueue"])
            ELSE Update(r, [q EXCEPT !.cached = <<>>, !.pc = "resolve",
                                     !.galReads = Append(@, read(ok)),
                                     !.faults = @ + Fault(ok)])
        /\ UNCHANGED <<hasCache, cache, resolverVars>>

\* getArtistLocation: the cache read, which answers or throws
GalGet(r) ==
    LET q == req[r]
        name == q.uncachedArtists[q.i]
        cached == cache[cacheKey(name)]
        read(ok) == [idx |-> q.uncachedIdx[q.i], ok |-> ok,
                     entry |-> IF ok THEN cached ELSE <<>>]
    IN  /\ q.pc = "get"
        /\ \E ok \in Outcomes(q) :
            IF ok /\ cached # <<>>
            THEN IF partial(cached[1])
                 THEN Update(r, [q EXCEPT !.cached = cached,
                                          !.galReads = Append(@, read(ok)),
                                          !.pc = "geocode"])
                 ELSE Update(r, [q EXCEPT !.cached = cached,
                                          !.galReads = Append(@, read(ok)),
                                          !.result = cached[1],
                                          !.how = "hit", !.pc = "enqueue"])
            ELSE Update(r, [q EXCEPT !.cached = <<>>, !.pc = "resolve",
                                     !.galReads = Append(@, read(ok)),
                                     !.faults = @ + Fault(ok)])
        /\ UNCHANGED <<hasCache, cache, resolverVars>>

\* GalGeocode with only the coordinates taken from the geocoder: the stored
\* location_name is kept
GalGeocodeKeepName(r) ==
    LET q == req[r]
        locationName == q.cached[1].location_name
        call(geoResult) == [q |-> locationName, idx |-> q.uncachedIdx[q.i],
                            entry |-> q.cached[1], geo |-> geoResult]
    IN  /\ q.pc = "geocode"
        /\ \E geoResult \in geocodeOutcomes(locationName) :
            IF geoResult.found
            THEN Update(r, [q EXCEPT
                    !.cached = << Entry(locationName, geoResult.coords) >>,
                    !.geocodeCalls = Append(@, call(geoResult)),
                    !.pc = "putRetry"])
            ELSE Update(r, [q EXCEPT
                    !.geocodeCalls = Append(@, call(geoResult)),
                    !.result = q.cached[1],
                    !.how = "retryFailed", !.pc = "enqueue"])
        /\ UNCHANGED <<hasCache, cache, resolverVars>>

\* GalGeocode that gives up when the geocoder finds nothing: the answer is
\* the Unknown sentinel instead of the entry as read
GalGeocodeGiveUp(r) ==
    LET q == req[r]
        locationName == q.cached[1].location_name
        call(geoResult) == [q |-> locationName, idx |-> q.uncachedIdx[q.i],
                            entry |-> q.cached[1], geo |-> geoResult]
    IN  /\ q.pc = "geocode"
        /\ \E geoResult \in geocodeOutcomes(locationName) :
            IF geoResult.found
            THEN Update(r, [q EXCEPT
                    !.cached = << Entry(geoResult.displayName,
                                        geoResult.coords) >>,
                    !.geocodeCalls = Append(@, call(geoResult)),
                    !.pc = "putRetry"])
            ELSE Update(r, [q EXCEPT
                    !.geocodeCalls = Append(@, call(geoResult)),
                    !.result = UnknownLocation,
                    !.how = "retryFailed", !.pc = "enqueue"])
        /\ UNCHANGED <<hasCache, cache, resolverVars>>

\* getArtistLocation: a partial entry is geocoded again
GalGeocode(r) ==
    LET q == req[r]
        locationName == q.cached[1].location_name
        call(geoResult) == [q |-> locationName, idx |-> q.uncachedIdx[q.i],
                            entry |-> q.cached[1], geo |-> geoResult]
    IN  /\ q.pc = "geocode"
        /\ \E geoResult \in geocodeOutcomes(locationName) :
            IF geoResult.found
            THEN Update(r, [q EXCEPT
                    !.cached = << Entry(geoResult.displayName,
                                        geoResult.coords) >>,
                    !.geocodeCalls = Append(@, call(geoResult)),
                    !.pc = "putRetry"])
            ELSE Update(r, [q EXCEPT
                    !.geocodeCalls = Append(@, call(geoResult)),
                    !.result = q.cached[1],
                    !.how = "retryFailed", !.pc = "enqueue"])
        /\ UNCHANGED <<hasCache, cache, resolverVars>>

\* getArtistLocation: the entry with its new coordinates is written back; a
\* put that throws is caught by the handler of the cache read
GalPutRetry(r) ==
    LET q == req[r]
        key == cacheKey(q.uncachedArtists[q.i])
    IN  /\ q.pc = "putRetry"
        /\ \E ok \in Outcomes(q) :
            /\ cache' = IF ok THEN [cache EXCEPT ![key] = q.cached] ELSE cache
            /\ IF ok
               THEN Update(r, [q EXCEPT
                        !.puts = Append(@, Put(key, q.cached[1], ok,
                                               q.uncachedIdx[q.i], "retry")),
                        !.result = q.cached[1],
                        !.how = "retried", !.pc = "enqueue"])
               ELSE Update(r, [q EXCEPT
                        !.puts = Append(@, Put(key, q.cached[1], ok,
                                               q.uncachedIdx[q.i], "retry")),
                        !.faults = @ + 1,
                        !.pc = "resolve"])
        /\ UNCHANGED <<hasCache, resolverVars>>

\* GalThrow with the exception swallowed inside the loop: the producer goes
\* on with the next name
GalThrowSkip(r) ==
    LET q == req[r] IN
    /\ q.pc = "resolve"
    /\ ~IsString(q.uncachedArtists[q.i])
    /\ Update(r, [q EXCEPT
            !.thrown = TRUE, !.i = @ + 1,
            !.pc = IF q.i < Len(q.uncachedArtists) THEN callPc ELSE "close"])
    /\ UNCHANGED <<hasCache, cache, resolverVars>>

\* getArtistLocation throws at artistName.toLowerCase() for a name that is
\* not a string (reached only without a cache): start() catches, logs and
\* goes to finally
GalThrow(r) ==
    LET q == req[r] IN
    /\ q.pc = "resolve"
    /\ ~IsString(q.uncachedArtists[q.i])
    /\ Update(r, [q EXCEPT !.thrown = TRUE, !.pc = "close"])
    /\ UNCHANGED <<hasCache, cache, resolverVars>>

\* getArtistLocation: the shared resolver runs
GalResolve(r) ==
    LET q == req[r]
        name == q.uncachedArtists[q.i]
    IN  /\ q.pc = "resolve"
        /\ IsString(name)
        /\ \E result \in resolveOutcomes(name) :
            Update(r, [q EXCEPT
                !.result = result, !.how = "resolved",
                !.resolveCalls = Append(@, [name |-> name,
                                            idx |-> q.uncachedIdx[q.i]]),
                !.pc = IF hasCache THEN "put" ELSE "enqueue"])
        /\ UNCHANGED <<hasCache, cache, resolverVars>>

\* getArtistLocation: the result is cached; a put that throws is only logged
GalPut(r) ==
    LET q == req[r]
        key == cacheKey(q.uncachedArtists[q.i])
    IN  /\ q.pc = "put"
        /\ \E ok \in Outcomes(q) :
            /\ cache' = IF ok THEN [cache EXCEPT ![key] = << q.result >>]
                        ELSE cache
            /\ Update(r, [q EXCEPT
                    !.puts = Append(@, Put(key, q.result, ok,
                                           q.uncachedIdx[q.i], "resolve")),
                    !.faults = @ + Fault(ok),
                    !.pc = "enqueue"])
        /\ UNCHANGED <<hasCache, resolverVars>>

\* Enqueue for a producer that looks at the stream only after its pause: on a
\* cancelled stream the line is dropped and the loop goes on
EnqueueUnobserved(r) ==
    LET q == req[r]
        name == q.uncachedArtists[q.i]
    IN  /\ q.pc = "enqueue"
        /\ Update(r, [q EXCEPT
                !.stream = IF q.cancelled THEN @
                           ELSE Append(@, Line(name, q.result)),
                !.lineLog = IF q.cancelled THEN @
                            ELSE Append(@, [src |-> "loop", how |-> q.how,
                                            idx |-> q.uncachedIdx[q.i]]),
                !.i = @ + 1,
                !.pc = IF q.i < Len(q.uncachedArtists) THEN "sleep"
                       ELSE "close"])
        /\ UNCHANGED <<hasCache, cache, resolverVars>>

\* the line of the artist is enqueued, and the loop pauses before the next
\* name or ends; controller.enqueue throws on a stream the client cancelled,
\* which start() catches
Enqueue(r) ==
    LET q == req[r]
        name == q.uncachedArtists[q.i]
    IN  /\ q.pc = "enqueue"
        /\ IF q.cancelled
           THEN Update(r, [q EXCEPT !.thrown = TRUE, !.pc = "close"])
           ELSE Update(r, [q EXCEPT
                !.stream = Append(@, Line(name, q.result)),
                !.lineLog = Append(@, [src |-> "loop", how |-> q.how,
                                       idx |-> q.uncachedIdx[q.i]]),
                !.i = @ + 1,
                !.pc = IF q.i < Len(q.uncachedArtists) THEN "sleep"
                       ELSE "close"])
        /\ UNCHANGED <<hasCache, cache, resolverVars>>

\* the pause of 500 ms between two uncached names is over
Sleep(r) ==
    LET q == req[r] IN
    /\ q.pc = "sleep"
    /\ Update(r, [q EXCEPT !.pc = callPc])
    /\ UNCHANGED <<hasCache, cache, resolverVars>>

\* the client goes away while the stream is open: the runtime cancels the
\* stream, which the producer does not see before its next enqueue
Disconnect(r) ==
    LET q == req[r] IN
    /\ q.pc \in { "get", "geocode", "putRetry", "resolve", "put", "enqueue",
                  "sleep" }
    /\ ~q.cancelled
    /\ Update(r, [q EXCEPT
            !.cancelled = TRUE,
            !.cancelAt = << [pc |-> q.pc, i |-> q.i,
                             lines |-> Len(q.stream),
                             gets |-> Len(q.galReads),
                             geocodes |-> Len(q.geocodeCalls),
                             resolves |-> Len(q.resolveCalls),
                             puts |-> Len(q.puts)] >>])
    /\ UNCHANGED <<hasCache, cache, resolverVars>>

\* finally: controller.close()
Close(r) ==
    LET q == req[r] IN
    /\ q.pc = "close"
    /\ Update(r, [q EXCEPT !.closed = TRUE, !.pc = "done"])
    /\ UNCHANGED <<hasCache, cache, resolverVars>>

Methods == { "OPTIONS", "GET", "POST", "DELETE" }

Paths == { "/health", "/api/artists", "/api/cache", "/other" }

\* route with the health answer for every request no other branch takes
routeDefaultHealth(method, path) ==
    IF method = "OPTIONS" THEN "preflight"
    ELSE IF path = "/health" THEN "health"
    ELSE IF path = "/api/artists" /\ method = "POST" THEN "artists"
    ELSE IF path = "/api/cache" /\ method = "DELETE" THEN "cache"
    ELSE "health"

\* the branch of fetch that answers the request
route(method, path) ==
    IF method = "OPTIONS" THEN "preflight"
    ELSE IF path = "/health" THEN "health"
    ELSE IF path = "/api/artists" /\ method = "POST" THEN "artists"
    ELSE IF path = "/api/cache" /\ method = "DELETE" THEN "cache"
    ELSE "notFound"

\* a request no handler with a body takes: preflight, health check, 404
Answer(r) ==
    /\ req[r].pc = "idle"
    /\ \E method \in Methods, path \in Paths :
        LET branch == route(method, path) IN
        /\ branch \in { "preflight", "health", "notFound" }
        /\ Update(r, [IdleRequest EXCEPT
                !.method = method, !.path = path, !.cache0 = cache,
                !.status = IF branch = "notFound" THEN 404 ELSE 200,
                !.reply = CASE branch = "preflight" -> ""
                            [] branch = "health" -> "OK"
                            [] OTHER -> "Not Found",
                !.pc = "done"])
    /\ UNCHANGED <<hasCache, cache, resolverVars>>

\* the request bodies that carry no names: text that is not JSON, the JSON
\* values null and 7, {}, {"artists": null}, {"artists": "x"},
\* {"artists": []}
InvalidBodies ==
    { "unparsable", "null", "scalar", "noField", "falsyField",
      "nonArrayField", "emptyArray" }

\* await request.json() and body.artists throw for these
jsonThrows(body) == body = "unparsable"

artistsThrows(body) == body = "null"

\* Array.isArray(artists) and artists.length === 0 for body.artists || []
isArray(body) == body # "nonArrayField"

isEmpty(body) == body \in { "scalar", "noField", "falsyField", "emptyArray" }

\* the status the handler answers before it looks at any name; 0: none
validate(body) ==
    IF jsonThrows(body) \/ artistsThrows(body) THEN 500
    ELSE IF ~isArray(body) \/ isEmpty(body) THEN 400
    ELSE 0

\* POST /api/artists or DELETE /api/cache with a body without names: 400
\* from the validation, 500 from the catch when reading the body throws
Reject(r) ==
    /\ req[r].pc = "idle"
    /\ \E method \in Methods, path \in Paths, body \in InvalidBodies :
        /\ route(method, path) \in { "artists", "cache" }
        /\ validate(body) # 0
        /\ Update(r, [IdleRequest EXCEPT
                !.method = method, !.path = path, !.body = body,
                !.cache0 = cache,
                !.status = validate(body),
                !.reply = IF validate(body) = 500 THEN "error.message"
                          ELSE "Invalid artists array",
                !.pc = "done"])
    /\ UNCHANGED <<hasCache, cache, resolverVars>>

\* the names of the DELETE bodies: two spellings of one key and another key
DeleteArrays == SeqsUpTo(ResolverNames, MaxArtists) \ { <<>> }

DeleteKeys == { cacheKey(n) : n \in ResolverNames }

\* DELETE /api/cache arrives with one of the given artists arrays; overlapped
\* records the requests that are under way at that moment
StartDeleteWith(r, arrays) ==
    /\ req[r].pc = "idle"
    /\ \E artists \in arrays :
        Update(r, [IdleRequest EXCEPT
            !.pc = "delete", !.artists = artists,
            !.method = "DELETE", !.path = "/api/cache", !.cache0 = cache,
            !.overlapped = { o \in AllRequests :
                               req[o].pc \notin { "idle", "done" } }])
    /\ UNCHANGED <<hasCache, cache, resolverVars>>

\* DELETE /api/cache with a valid artists array arrives
StartDelete(r) == StartDeleteWith(r, DeleteArrays)

\* DeleteOne that reports the name without deleting its key
DeleteOneKeepsEntry(r) ==
    LET q == req[r]
        name == q.artists[q.k]
        key == cacheKey(name)
    IN  /\ q.pc = "delete"
        /\ hasCache
        /\ q.k <= Len(q.artists)
        /\ \E ok \in Outcomes(q) :
            /\ cache' = cache
            /\ IF ok
               THEN Update(r, [q EXCEPT
                        !.deleted = Append(@, name), !.k = @ + 1,
                        !.deletes = Append(@, [key |-> key, ok |-> TRUE])])
               ELSE Update(r, [q EXCEPT
                        !.deletes = Append(@, [key |-> key, ok |-> FALSE]),
                        !.faults = @ + 1, !.status = 500, !.pc = "done"])
        /\ UNCHANGED <<hasCache, resolverVars>>

\* the key of the next name is deleted and the name reported; a delete that
\* throws ends the request with 500
DeleteOne(r) ==
    LET q == req[r]
        name == q.artists[q.k]
        key == cacheKey(name)
    IN  /\ q.pc = "delete"
        /\ hasCache
        /\ q.k <= Len(q.artists)
        /\ \E ok \in Outcomes(q) :
            /\ cache' = IF ok THEN [cache EXCEPT ![key] = <<>>] ELSE cache
            /\ IF ok
               THEN Update(r, [q EXCEPT
                        !.deleted = Append(@, name), !.k = @ + 1,
                        !.deletes = Append(@, [key |-> key, ok |-> TRUE])])
               ELSE Update(r, [q EXCEPT
                        !.deletes = Append(@, [key |-> key, ok |-> FALSE]),
                        !.faults = @ + 1, !.status = 500, !.pc = "done"])
        /\ UNCHANGED <<hasCache, resolverVars>>

\* the answer {deleted} with status 200; without a cache the list is empty
DeleteRespond(r) ==
    LET q == req[r] IN
    /\ q.pc = "delete"
    /\ ~hasCache \/ q.k > Len(q.artists)
    /\ Update(r, [q EXCEPT !.status = 200, !.pc = "done"])
    /\ UNCHANGED <<hasCache, cache, resolverVars>>

-----------------------------------------------------------------------------
(* Specifications                                                          *)

IdleResolver ==
    /\ rName = Ab
    /\ rWorld = <<>>
    /\ rOut = NoOut
    /\ rPhase = "idle"
    /\ fw = NoFetch

\* the worker serving one request at a time
Init ==
    /\ IdleResolver
    /\ hasCache \in BOOLEAN
    /\ cache \in [CacheKeys -> StoredEntries]
    /\ req = [r \in AllRequests |-> IdleRequest]

Next ==
    \E r \in Requests :
        \/ StartPost(r)
        \/ PrecheckGet(r)
        \/ PrecheckNoCache(r)
        \/ PrecheckDone(r)
        \/ Flush(r)
        \/ GalGet(r)
        \/ GalGeocode(r)
        \/ GalPutRetry(r)
        \/ GalResolve(r)
        \/ GalPut(r)
        \/ Enqueue(r)
        \/ Sleep(r)
        \/ Close(r)

Spec == Init /\ [][Next]_vars

\* one call of resolveArtistLocation against every world
InitResolve ==
    /\ rName \in ResolverNames
    /\ rWorld \in Worlds(rName)
    /\ rOut = NoOut
    /\ rPhase = "start"
    /\ fw = NoFetch
    /\ hasCache = FALSE
    /\ cache = [key \in CacheKeys |-> <<>>]
    /\ req = [r \in AllRequests |-> IdleRequest]

Resolve ==
    /\ rPhase = "start"
    /\ rOut' = resolveArtistLocation(rWorld, rName)
    /\ rPhase' = "done"
    /\ UNCHANGED <<rName, rWorld, fw, workerVars>>

NextResolve == Resolve

SpecResolve == InitResolve /\ [][NextResolve]_vars

\* a relation of an area to the area id; coded parents carry an ISO code
ParentRel(id, areaType, iso1, iso2) ==
    [type |-> PartOf, direction |-> Backward,
     area |-> [present |-> TRUE, id |-> id, name |-> id, type |-> areaType,
               iso1 |-> iso1, iso2 |-> iso2]]

ToA1 == ParentRel(<<"a1">>, <<"C","i","t","y">>, <<>>, <<>>)
ToA2 == ParentRel(<<"a2">>, SubdivisionType, <<>>, <<>>)
ToA2Coded ==
    ParentRel(<<"a2">>, SubdivisionType, <<>>, << <<"A","U","-","W","A">> >>)
ToA3Coded ==
    ParentRel(<<"a3">>, <<"C","o","u","n","t","r","y">>, << <<"A","U">> >>,
              <<>>)
ChildA2 == [ToA2Coded EXCEPT !.direction = <<"forward">>]

\* what the lookup of one area may answer: an error, an area with its own
\* code, or an area without code and with some relations
AreaAnswers ==
    { NoResponse, AreaData(<< <<"A","U">> >>, <<>>, << ToA2 >>) } \cup
    { AreaData(<<>>, <<>>, relations) :
        relations \in { <<>>, << ToA1 >>, << ToA2 >>, << ToA1, ToA2 >>,
                        << ToA2, ToA1 >>, << ToA2, ToA3Coded >>,
                        << ToA2Coded >>, << ChildA2, ToA3Coded >>,
                        << ToA1, ToA2Coded >> } }

\* area graphs over a1 and a2, cyclic ones included
AreaGraphs ==
    { (<<"a1">> :> x) @@ (<<"a2">> :> y) : x \in AreaAnswers, y \in AreaAnswers }

Frame(areaId, depth) ==
    [areaId |-> areaId, depth |-> depth, pc |-> "enter", rels |-> <<>>,
     ret |-> NoContext]

\* one call resolveAreaContext("a1") for every area graph, run step by step;
\* rOut.frames is the stack of the calls that have not returned
InitContext ==
    /\ rName = <<>>
    /\ rWorld \in [areas : AreaGraphs]
    /\ rOut = [val |-> NoContext, calls |-> <<>>, depths |-> <<>>,
               frames |-> << Frame(<<"a1">>, 0) >>]
    /\ rPhase = "walk"
    /\ fw = NoFetch
    /\ hasCache = FALSE
    /\ cache = [key \in CacheKeys |-> <<>>]
    /\ req = [r \in AllRequests |-> IdleRequest]

TopFrame == rOut.frames[Len(rOut.frames)]

\* the frames with the topmost replaced
WithTop(frame) ==
    [rOut.frames EXCEPT ![Len(rOut.frames)] = frame]

Returning(frame, context) == [frame EXCEPT !.pc = "return", !.ret = context]

\* entry of resolveAreaContext with a depth bound one higher
CtxEnterDeeper ==
    /\ rPhase = "walk"
    /\ TopFrame.pc = "enter"
    /\ LET top == TopFrame
           data == LookupOr(rWorld.areas, top.areaId, NoResponse)
           code == extractCountryCode(data)
           asked == [rOut EXCEPT
                        !.calls = Append(@, Call("mb_area", top.areaId)),
                        !.depths = Append(@, top.depth)]
       IN  rOut' =
             IF top.depth > MaxDepth + 1
             THEN [rOut EXCEPT !.frames = WithTop(Returning(top, NoContext))]
             ELSE IF ~data.ok
             THEN [asked EXCEPT !.frames = WithTop(Returning(top, NoContext))]
             ELSE IF code # <<>>
             THEN [asked EXCEPT !.frames = WithTop(Returning(top,
                       [country |-> countryCodeToName(code),
                        subdivision |-> <<>>]))]
             ELSE [asked EXCEPT !.frames = WithTop(
                       [top EXCEPT !.pc = "loop", !.rels = data.relations])]
    /\ UNCHANGED <<rName, rWorld, rPhase, fw, workerVars>>

\* entry of resolveAreaContext: the depth test, the lookup, the area's own
\* code
CtxEnter ==
    /\ rPhase = "walk"
    /\ TopFrame.pc = "enter"
    /\ LET top == TopFrame
           data == LookupOr(rWorld.areas, top.areaId, NoResponse)
           code == extractCountryCode(data)
           asked == [rOut EXCEPT
                        !.calls = Append(@, Call("mb_area", top.areaId)),
                        !.depths = Append(@, top.depth)]
       IN  rOut' =
             IF top.depth > MaxDepth
             THEN [rOut EXCEPT !.frames = WithTop(Returning(top, NoContext))]
             ELSE IF ~data.ok
             THEN [asked EXCEPT !.frames = WithTop(Returning(top, NoContext))]
             ELSE IF code # <<>>
             THEN [asked EXCEPT !.frames = WithTop(Returning(top,
                       [country |-> countryCodeToName(code),
                        subdivision |-> <<>>]))]
             ELSE [asked EXCEPT !.frames = WithTop(
                       [top EXCEPT !.pc = "loop", !.rels = data.relations])]
    /\ UNCHANGED <<rName, rWorld, rPhase, fw, workerVars>>

\* one pass of the loop over data.relations, up to a return or the
\* recursive call
CtxLoop ==
    /\ rPhase = "walk"
    /\ TopFrame.pc = "loop"
    /\ LET top == TopFrame
           rel == Head(top.rels)
           code == extractCountryCode(rel.area)
           next == [top EXCEPT !.rels = Tail(@)]
       IN  rOut' = [rOut EXCEPT !.frames =
             IF top.rels = <<>> THEN WithTop(Returning(top, NoContext))
             ELSE IF rel.type = PartOf /\ rel.direction = Backward
                     /\ rel.area.present
             THEN IF code # <<>>
                  THEN WithTop(Returning(top,
                           [country |-> countryCodeToName(code),
                            subdivision |->
                                IF rel.area.type = SubdivisionType
                                THEN rel.area.name ELSE <<>>]))
                  ELSE IF rel.area.id # <<>>
                  THEN Append(WithTop([top EXCEPT !.pc = "await"]),
                              Frame(rel.area.id, top.depth + 1))
                  ELSE WithTop(next)
             ELSE WithTop(next)]
    /\ UNCHANGED <<rName, rWorld, rPhase, fw, workerVars>>

\* CtxReturn that gives up when the recursion into a parent found no country
CtxReturnGiveUp ==
    /\ rPhase = "walk"
    /\ TopFrame.pc = "return"
    /\ LET n == Len(rOut.frames)
           parentContext == TopFrame.ret
           caller == rOut.frames[n - 1]
           rel == Head(caller.rels)
           resumed ==
               IF parentContext.country # <<>>
               THEN Returning(caller,
                        [country |-> parentContext.country,
                         subdivision |->
                             IF parentContext.subdivision = <<>>
                                /\ rel.area.type = SubdivisionType
                             THEN rel.area.name
                             ELSE parentContext.subdivision])
               ELSE Returning(caller, NoContext)
       IN  IF n = 1
           THEN /\ rOut' = [rOut EXCEPT !.val = parentContext,
                                        !.frames = <<>>]
                /\ rPhase' = "done"
           ELSE /\ rOut' = [rOut EXCEPT !.frames =
                               Append(SubSeq(rOut.frames, 1, n - 2), resumed)]
                /\ UNCHANGED rPhase
    /\ UNCHANGED <<rName, rWorld, fw, workerVars>>

\* a call returns: to the caller of resolveAreaContext, or into the loop of
\* the calling frame, which returns in turn if the parent has a country
CtxReturn ==
    /\ rPhase = "walk"
    /\ TopFrame.pc = "return"
    /\ LET n == Len(rOut.frames)
           parentContext == TopFrame.ret
           caller == rOut.frames[n - 1]
           rel == Head(caller.rels)
           resumed ==
               IF parentContext.country # <<>>
               THEN Returning(caller,
                        [country |-> parentContext.country,
                         subdivision |->
                             IF parentContext.subdivision = <<>>
                                /\ rel.area.type = SubdivisionType
                             THEN rel.area.name
                             ELSE parentContext.subdivision])
               ELSE [caller EXCEPT !.pc = "loop", !.rels = Tail(@)]
       IN  IF n = 1
           THEN /\ rOut' = [rOut EXCEPT !.val = parentContext,
                                        !.frames = <<>>]
                /\ rPhase' = "done"
           ELSE /\ rOut' = [rOut EXCEPT !.frames =
                               Append(SubSeq(rOut.frames, 1, n - 2), resumed)]
                /\ UNCHANGED rPhase
    /\ UNCHANGED <<rName, rWorld, fw, workerVars>>

NextContext == CtxEnter \/ CtxLoop \/ CtxReturn

\* an awaited lookup settles and the function runs on
SpecContext == InitContext /\ [][NextContext]_vars /\ WF_vars(NextContext)

PaceDelay == 1100

InterResolveSleep == 500

\* how long an upstream may take to answer, in ms
Latencies == { 0, 600 }

MusicBrainzServices == { "mb_search", "mb_area", "mb_artist_rels", "mb_artist" }

\* the requests that are preceded by setTimeout(r, 1100)
PacedServices == { "mb_area", "mb_artist_rels", "mb_artist" }

\* the upstream answers the batch is resolved against: no candidate, a
\* rejected candidate, a city with its area hierarchy, and a candidate
\* without area that links to a person
PaceWorlds(artistName) ==
    WorldsOf({ SearchOk(<<>>),
               SearchOk(<< Candidate(Zz, 100, CityPa, CountryOz) >>),
               SearchOk(<< Candidate(Ab, 100, CityPa, CountryOz) >>),
               SearchOk(<< Candidate(Ab, 100, NoArea, NoArea) >>) },
             { r \in RelOptions : r.persons \in
                   { <<>>, (<<"p1">> :> Person(CityPa, CountryOz)) } },
             { AreaTable }, { [sparqlPerson |-> Bindings(<<>>),
                               sparqlBand |-> Bindings(<<>>)] },
             { <<>> }, { <<>> }, { NominatimCities @@ NominatimRegions },
             { <<>> })

\* the time since the last request to MusicBrainz, d ms later; counted up
\* to 1100 ms
Later(since, d) ==
    IF since = <<>> THEN <<>> ELSE << Min(since[1] + d, PaceDelay) >>

\* two uncached names are resolved one after the other by one request
\* without cache; rOut follows the requests of resolveArtistLocation for
\* name i with the time since the last MusicBrainz request and the
\* shortest time between two of them
InitPace ==
    /\ rName = << Ab, <<"a","b">> >>
    /\ rWorld \in [1..2 -> PaceWorlds(Ab)]
    /\ rOut = [i |-> 1, k |-> 1, pc |-> "call", attempt |-> 0,
               requests |-> <<>>, since |-> <<>>, shortest |-> <<>>]
    /\ rPhase = "start"
    /\ fw = NoFetch
    /\ hasCache = FALSE
    /\ cache = [key \in CacheKeys |-> <<>>]
    /\ req = [r \in AllRequests |-> IdleRequest]

\* the requests the resolve of name i makes, in order
RequestsOf(i) == resolveArtistLocation(rWorld[i], rName[i]).calls

CurrentRequest == rOut.requests[rOut.k]

\* getArtistLocation(name) is called for name i: without a cache it calls
\* resolveArtistLocation(name)
PaceResolve ==
    /\ rPhase = "start"
    /\ rOut.pc = "call"
    /\ rOut' = [rOut EXCEPT !.requests = RequestsOf(rOut.i), !.k = 1,
                            !.pc = "wait"]
    /\ UNCHANGED <<rName, rWorld, rPhase, fw, workerVars>>

\* await new Promise(r => setTimeout(r, 1100)) before an area or artist
\* lookup
PaceWait ==
    /\ rPhase = "start"
    /\ rOut.pc = "wait"
    /\ CurrentRequest.svc \in PacedServices
    /\ rOut' = [rOut EXCEPT !.pc = "request",
                            !.since = Later(@, PaceDelay)]
    /\ UNCHANGED <<rName, rWorld, rPhase, fw, workerVars>>

\* the request is sent
PaceRequest ==
    /\ rPhase = "start"
    /\ \/ rOut.pc = "request"
       \/ rOut.pc = "wait" /\ CurrentRequest.svc \notin PacedServices
    /\ rOut' =
          IF CurrentRequest.svc \in MusicBrainzServices
          THEN [rOut EXCEPT
                   !.pc = "answer",
                   !.since = << 0 >>,
                   !.shortest =
                       IF rOut.since = <<>> THEN @
                       ELSE IF @ = <<>> THEN rOut.since
                       ELSE << Min(@[1], rOut.since[1]) >>]
          ELSE [rOut EXCEPT !.pc = "answer"]
    /\ UNCHANGED <<rName, rWorld, rPhase, fw, workerVars>>

\* the answer arrives and the resolve goes on to its next request, or
\* returns
PaceAnswer ==
    /\ rPhase = "start"
    /\ rOut.pc = "answer"
    /\ \E latency \in Latencies :
           rOut' = [rOut EXCEPT
                       !.since = Later(@, latency),
                       !.attempt = 0,
                       !.k = IF @ < Len(rOut.requests) THEN @ + 1 ELSE @,
                       !.pc = IF rOut.k < Len(rOut.requests)
                              THEN "wait" ELSE "enqueue"]
    /\ UNCHANGED <<rName, rWorld, rPhase, fw, workerVars>>

\* MusicBrainz answers 429 or 503 to the first attempt: fetchWithRetry
\* waits (attempt + 1) * 500 ms and sends the request again
PaceRateLimited ==
    /\ rPhase = "start"
    /\ rOut.pc = "answer"
    /\ CurrentRequest.svc \in MusicBrainzServices
    /\ rOut.attempt + 1 < DefaultMaxRetries
    /\ \E latency \in Latencies :
           rOut' = [rOut EXCEPT
                       !.since = Later(@, latency
                                          + (rOut.attempt + 1) * RetryDelay),
                       !.attempt = @ + 1,
                       !.pc = "request"]
    /\ UNCHANGED <<rName, rWorld, rPhase, fw, workerVars>>

\* the line is enqueued; before the next name the loop sleeps 500 ms, after
\* the last name the stream is closed
PaceSleep ==
    /\ rPhase = "start"
    /\ rOut.pc = "enqueue"
    /\ IF rOut.i < Len(rName)
       THEN /\ rOut' = [rOut EXCEPT !.i = @ + 1, !.k = 1, !.pc = "call",
                            !.since = Later(@, InterResolveSleep)]
            /\ UNCHANGED rPhase
       ELSE /\ rOut' = [rOut EXCEPT !.pc = "closed"]
            /\ rPhase' = "done"
    /\ UNCHANGED <<rName, rWorld, fw, workerVars>>

NextPace ==
    \/ PaceResolve
    \/ PaceWait
    \/ PaceRequest
    \/ PaceAnswer
    \/ PaceRateLimited
    \/ PaceSleep

SpecPace == InitPace /\ [][NextPace]_vars

\* the scraped locations, each with its first comma segment
WikiLocations ==
    { [full |-> Pa, first |-> Pa],
      [full |-> Wa, first |-> Wa],
      [full |-> WaOz, first |-> Wa] }

\* Nominatim tables for the scraped locations: those of the orchestrator,
\* and two that know the region but neither its capital nor its country
WikiNominatimOptions ==
    NominatimOptions \cup { (WaOz :> HitWa), (Wa :> HitWa) }

\* one geocoding of a scraped location for every location and every
\* combination of the answers of the capital query and the geocoders
InitWiki ==
    /\ rName = <<>>
    /\ rWorld \in [wikiLocation : WikiLocations,
                    capitals : CapitalOptions \cup { (Wa :> NoResponse) },
                    nominatim : WikiNominatimOptions,
                    photon : PhotonOptions]
    /\ rOut = NoOut
    /\ rPhase = "start"
    /\ fw = NoFetch
    /\ hasCache = FALSE
    /\ cache = [key \in CacheKeys |-> <<>>]
    /\ req = [r \in AllRequests |-> IdleRequest]

GeocodeWiki ==
    /\ rPhase = "start"
    /\ rOut' = geocodeWikiLocation(rWorld, rWorld.wikiLocation.full, <<>>)
    /\ rPhase' = "done"
    /\ UNCHANGED <<rName, rWorld, fw, workerVars>>

SpecWiki == InitWiki /\ [][GeocodeWiki]_vars

\* the areas given to geocodeMusicBrainzResult
SnapAreas ==
    { SubdivisionWa,
      [SubdivisionWa EXCEPT !.id = <<>>],
      [SubdivisionWa EXCEPT !.type = Subdivision],
      CityPa, CountryOz }

\* Nominatim tables for the area queries: those of the orchestrator, one that
\* knows the city only with its country, and one that knows the city only by
\* its bare name and knows the country
SnapNominatimOptions ==
    NominatimOptions \cup
    { ((Pa \o CommaSpace \o Oz) :> HitPa),
      (Pa :> HitPa) @@ (Oz :> HitOz) }

\* one call of geocodeMusicBrainzResult for every area and every combination
\* of the answers of the area lookup, the capital query and the geocoders
InitSnap ==
    /\ rName = <<>>
    /\ rWorld \in [bestArea : SnapAreas, areas : AreaOptions,
                    capitals : CapitalOptions \cup { (Wa :> NoResponse) },
                    nominatim : SnapNominatimOptions,
                    photon : PhotonOptions]
    /\ rOut = [val |-> NoGeo, calls |-> <<>>]
    /\ rPhase = "start"
    /\ fw = NoFetch
    /\ hasCache = FALSE
    /\ cache = [key \in CacheKeys |-> <<>>]
    /\ req = [r \in AllRequests |-> IdleRequest]

Snap ==
    /\ rPhase = "start"
    /\ rOut' = geocodeMusicBrainzResult(rWorld, rWorld.bestArea)
    /\ rPhase' = "done"
    /\ UNCHANGED <<rName, rWorld, fw, workerVars>>

SpecSnap == InitSnap /\ [][Snap]_vars

MaxCandidates == 2

\* the name and sort-name of a candidate of the search for "Ab": the name
\* itself, another name, the name with a sort-name that is another name,
\* and a longer name whose sort-name is the name
CandidateNames ==
    { [name |-> Ab, sortName |-> <<>>],
      [name |-> Zz, sortName |-> <<>>],
      [name |-> Ab, sortName |-> Zz],
      [name |-> Ab \o <<" ">> \o Zz, sortName |-> <<"a","b">>] }

SearchCandidates ==
    { [Candidate(n.name, score, beginArea, NoArea)
           EXCEPT !.sortName = n.sortName] :
      n \in CandidateNames, score \in { MinScore - 1, MinScore },
      beginArea \in { NoArea, CityPa } }

\* the candidates of a response, each with the id of its place in the list
Numbered(artists) ==
    [i \in 1..Len(artists) |->
        [artists[i] EXCEPT !.id = << "m", IF i = 1 THEN "1"
                                          ELSE IF i = 2 THEN "2" ELSE "3" >>]]

SearchResponses ==
    { [ok |-> FALSE, artists |-> <<>>] } \cup
    { SearchOk(Numbered(artists)) : artists \in SeqsUpTo(SearchCandidates,
                                                         MaxCandidates) }

\* one call of fetchFromMusicBrainz for every response to the search
InitSearch ==
    /\ rName = Ab
    /\ rWorld \in [mbSearch : SearchResponses]
    /\ rOut = [val |-> NoMbResult, calls |-> <<>>]
    /\ rPhase = "start"
    /\ fw = NoFetch
    /\ hasCache = FALSE
    /\ cache = [key \in CacheKeys |-> <<>>]
    /\ req = [r \in AllRequests |-> IdleRequest]

Search ==
    /\ rPhase = "start"
    /\ rOut' = fetchFromMusicBrainz(rWorld, rName)
    /\ rPhase' = "done"
    /\ UNCHANGED <<rName, rWorld, fw, workerVars>>

SpecSearch == InitSearch /\ [][Search]_vars

\* area types as MusicBrainz spells them, each with its rank
RankedTypes ==
    { [type |-> <<>>, rank |-> -1],
      [type |-> <<"C","o","u","n","t","r","y">>, rank |-> 0],
      [type |-> <<"S","u","b","d","i","v","i","s","i","o","n">>, rank |-> 1],
      [type |-> <<"I","n","d","i","g","e","n","o","u","s">>, rank |-> 1],
      [type |-> <<"C","o","u","n","t","y">>, rank |-> 2],
      [type |-> <<"C","i","t","y">>, rank |-> 3],
      [type |-> <<"M","u","n","i","c","i","p","a","l","i","t","y">>,
       rank |-> 3],
      [type |-> <<"D","i","s","t","r","i","c","t">>, rank |-> 3],
      [type |-> <<"t","o","w","n">>, rank |-> 3],
      [type |-> <<"V","I","L","L","A","G","E">>, rank |-> 3],
      [type |-> <<"I","s","l","a","n","d">>, rank |-> 3] }

\* an area field of a MusicBrainz result: absent, absent by name only, or
\* present with one of the types
AreaFields(name, id) ==
    { [name |-> <<>>, id |-> <<>>, type |-> <<>>, rank |-> -2],
      [name |-> <<>>, id |-> id, type |-> <<"C","i","t","y">>, rank |-> -2] }
    \cup { [name |-> name, id |-> id, type |-> t.type, rank |-> t.rank] :
             t \in RankedTypes }

\* one call of chooseBestArea for every begin-area and area
InitArea ==
    /\ rName = <<>>
    /\ rWorld \in [begin : AreaFields(Pa, <<"1">>),
                    area : AreaFields(Wa, <<"2">>)]
    /\ rOut = [val |-> NoArea, calls |-> <<>>]
    /\ rPhase = "start"
    /\ fw = NoFetch
    /\ hasCache = FALSE
    /\ cache = [key \in CacheKeys |-> <<>>]
    /\ req = [r \in AllRequests |-> IdleRequest]

ChooseArea ==
    /\ rPhase = "start"
    /\ rOut' = [val |-> chooseBestArea(
                    [beginArea |-> rWorld.begin.name,
                     beginAreaId |-> rWorld.begin.id,
                     beginAreaType |-> rWorld.begin.type,
                     area |-> rWorld.area.name,
                     areaId |-> rWorld.area.id,
                     areaType |-> rWorld.area.type]),
                calls |-> <<>>]
    /\ rPhase' = "done"
    /\ UNCHANGED <<rName, rWorld, fw, workerVars>>

SpecArea == InitArea /\ [][ChooseArea]_vars

\* the words the names of the name-matching inputs are made of
Words ==
    { <<"a">>, <<"A","b">>, <<"A","B">>, <<"b","a","b">>, <<"B","b","a">> }

Pads == { <<>>, <<" ">> }

Seps == { <<" ">>, <<" "," ">> }

TwoWords == { a \o s \o b : a \in Words, s \in Seps, b \in Words }

ThreeWords == { a \o <<" ">> \o b \o <<" ">> \o c : a, b, c \in Words }

\* search names: none to three words, with and without surrounding blanks
SearchNames ==
    { l \o p \o r : l \in Pads, r \in Pads,
                     p \in { <<>> } \cup Words \cup TwoWords \cup ThreeWords }

\* result names: one or two words, with and without a leading blank
ResultNames ==
    { l \o p : l \in Pads,
               p \in Words \cup { a \o <<" ">> \o b : a \in Words, b \in Words } }

\* one call of verifyArtistMatch for every search name and result name
InitMatch ==
    /\ rName \in SearchNames
    /\ rWorld \in [resultName : ResultNames]
    /\ rOut = [val |-> FALSE, calls |-> <<>>]
    /\ rPhase = "start"
    /\ fw = NoFetch
    /\ hasCache = FALSE
    /\ cache = [key \in CacheKeys |-> <<>>]
    /\ req = [r \in AllRequests |-> IdleRequest]

Match ==
    /\ rPhase = "start"
    /\ rOut' = [val |-> verifyArtistMatch(rName, rWorld.resultName),
                calls |-> <<>>]
    /\ rPhase' = "done"
    /\ UNCHANGED <<rName, rWorld, fw, workerVars>>

SpecMatch == InitMatch /\ [][Match]_vars

\* the strings given to geocodeLocation, each with its last comma segment
GeoQueries ==
    { [full |-> Pa, comma |-> FALSE, last |-> Pa],
      [full |-> PaWaOz, comma |-> TRUE, last |-> Oz],
      [full |-> Pa \o <<",">> \o Oz, comma |-> TRUE, last |-> Oz] }

\* every table that answers each of the keys with the hit, with an error
\* status, or with nothing
TablesOver(keys) ==
    UNION { [ S -> { "hit", "error" } ] : S \in SUBSET keys }

AnswersOf(table, hit(_)) ==
    [k \in DOMAIN table |->
        IF table[k] = "hit" THEN hit(k) ELSE NoResponse]

NominatimHit(k) == Hit(k, <<"c","i","t","y">>, 10 + Len(k), 20 + Len(k))

PhotonHit(k) == Feature(40 + Len(k), 30 + Len(k))

\* the geocoders' answers to the full string and to its last segment
GeoWorlds(q) ==
    { [nominatim |-> AnswersOf(n, NominatimHit),
       photon |-> AnswersOf(p, PhotonHit)] :
      n \in TablesOver({ q.full, q.last }),
      p \in TablesOver({ q.full, q.last }) }

\* one call of geocodeLocation against every pair of geocoder tables
InitGeocode ==
    /\ \E q \in GeoQueries : rName = q.full /\ rWorld \in GeoWorlds(q)
    /\ rOut = [val |-> NoGeo, calls |-> <<>>]
    /\ rPhase = "start"
    /\ fw = NoFetch
    /\ hasCache = FALSE
    /\ cache = [key \in CacheKeys |-> <<>>]
    /\ req = [r \in AllRequests |-> IdleRequest]

Geocode ==
    /\ rPhase = "start"
    /\ rOut' = geocodeLocation(rWorld, rName)
    /\ rPhase' = "done"
    /\ UNCHANGED <<rName, rWorld, fw, workerVars>>

SpecGeocode == InitGeocode /\ [][Geocode]_vars

\* the steps of one POST /api/artists request that carries one name
ServeName(r) ==
    \/ PrecheckGet(r)
    \/ PrecheckNoCache(r)
    \/ PrecheckDone(r)
    \/ Flush(r)
    \/ GalGet(r)
    \/ GalGeocode(r)
    \/ GalPutRetry(r)
    \/ GalResolve(r)
    \/ GalPut(r)
    \/ Enqueue(r)
    \/ Close(r)

\* the steps of one POST /api/artists request after its arrival
Serve(r) ==
    \/ ServeName(r)
    \/ Sleep(r)

NextThrow ==
    \E r \in Requests :
        \/ StartPostWith(r, MixedArrays)
        \/ PrecheckThrow(r)
        \/ GalThrow(r)
        \/ Serve(r)

\* one request whose artists may not be strings; the runtime runs every
\* started handler and stream producer on to its end
SpecThrow == Init /\ [][NextThrow]_vars /\ WF_vars(NextThrow)

NextCancel ==
    \E r \in Requests :
        \/ StartPost(r)
        \/ Disconnect(r)
        \/ Serve(r)

\* one request whose client may go away while the lines are streamed
SpecCancel == Init /\ [][NextCancel]_vars

\* the upstream answers that stay the same for a whole behaviour
StableWorlds == WorkerWorlds(Ab)

InitStable ==
    /\ rName = Ab
    /\ rWorld \in StableWorlds
    /\ rOut = NoOut
    /\ rPhase = "stable"
    /\ fw = NoFetch
    /\ hasCache \in BOOLEAN
    /\ cache \in [CacheKeys -> StoredEntries]
    /\ req = [r \in AllRequests |-> IdleRequest]

\* the same body is posted again once the first request is over
StartAgain ==
    /\ req["r1"].pc = "done"
    /\ req["r2"].pc = "idle"
    /\ Update("r2", [IdleRequest EXCEPT
            !.pc = "precheck", !.artists = req["r1"].artists,
            !.method = "POST", !.path = "/api/artists",
            !.limitedArtists = slice50(req["r1"].artists), !.cache0 = cache])
    /\ UNCHANGED <<hasCache, cache, resolverVars>>

\* the bodies posted twice: one name, or two spellings in either order
RepeatedArrays ==
    { << n >> : n \in ArtistNames } \cup
    { << n, m >> : n \in ArtistNames, m \in ArtistNames }

NextTwice ==
    \/ StartPostWith("r1", RepeatedArrays)
    \/ StartAgain
    \/ \E r \in AllRequests : Serve(r)

\* two successive POST requests with the same body against upstream services
\* that answer every request identically
SpecTwice == InitStable /\ [][NextTwice]_vars

\* the bodies of the concurrent requests: one name, in either spelling
SingleArrays == { << n >> : n \in ArtistNames }

NextConcurrent ==
    \E r \in AllRequests :
        \/ StartPostWith(r, SingleArrays)
        \/ ServeName(r)

\* two POST requests for one cache key whose steps interleave freely, against
\* upstream services that answer every request identically
SpecConcurrent == InitStable /\ [][NextConcurrent]_vars

NextRace ==
    \/ StartPostWith("r1", SingleArrays)
    \/ ServeName("r1")
    \/ StartDeleteWith("r2", SingleArrays)
    \/ DeleteOne("r2")
    \/ DeleteRespond("r2")

\* a POST /api/artists request and a DELETE /api/cache request for one cache
\* key whose steps interleave freely
SpecRace == InitStable /\ [][NextRace]_vars

\* bodies with more names than a request serves: MaxPerRequest times one
\* spelling, then 1..MaxArtists names in the other spelling
LongArrays ==
    { [j \in 1..(MaxPerRequest + extra) |->
          IF j <= MaxPerRequest THEN Ab ELSE <<"a", "b">>] :
      extra \in 1..MaxArtists }

\* POST /api/artists with a long array arrives; the cache answers every
\* operation of this request
StartLong(r) ==
    /\ req[r].pc = "idle"
    /\ \E artists \in LongArrays :
        Update(r, [IdleRequest EXCEPT
            !.pc = "precheck", !.artists = artists,
            !.method = "POST", !.path = "/api/artists",
            !.faults = MaxFaults,
            !.limitedArtists = slice50(artists), !.cache0 = cache])
    /\ UNCHANGED <<hasCache, cache, resolverVars>>

NextLong ==
    \E r \in Requests :
        \/ StartLong(r)
        \/ Serve(r)

\* one request with more than MaxPerRequest names against upstream services
\* that answer every request identically
SpecLong == InitStable /\ [][NextLong]_vars

NextHttp ==
    \E r \in Requests :
        \/ Answer(r)
        \/ Reject(r)
        \/ StartPost(r)
        \/ Serve(r)

\* one request of any method, path and body
SpecHttp == Init /\ [][NextHttp]_vars

InitRetry ==
    /\ IdleResolver
    /\ hasCache = FALSE
    /\ cache = [key \in CacheKeys |-> <<>>]
    /\ req = [r \in AllRequests |-> IdleRequest]

NextRetry ==
    \/ StartFetch
    \/ FetchAnswer
    \/ FetchThrow
    \/ FetchExhausted

\* one call of fetchWithRetry against every sequence of answers
SpecRetry == InitRetry /\ [][NextRetry]_vars

InitDelete ==
    /\ IdleResolver
    /\ hasCache \in BOOLEAN
    /\ cache \in [DeleteKeys -> StoredEntries]
    /\ req = [r \in AllRequests |-> IdleRequest]

NextDelete ==
    \/ StartDelete("r1")
    \/ DeleteOne("r1")
    \/ DeleteRespond("r1")
    \/ StartAgain
    \/ PrecheckGet("r2")
    \/ PrecheckNoCache("r2")
    \/ PrecheckDone("r2")

\* a DELETE /api/cache request, and after it the cache reads of a POST
\* /api/artists request for the same names
SpecDelete == InitDelete /\ [][NextDelete]_vars

-----------------------------------------------------------------------------
(* Properties of the batch stream                                          *)

FlushLines(q) == { j \in 1..Len(q.lineLog) : q.lineLog[j].src = "flush" }

LoopLines(q) == { j \in 1..Len(q.lineLog) : q.lineLog[j].src = "loop" }

\* C1: in the stream of one POST /api/artists request every line of a name
\* the pre-check found serviceable comes before every line of a name it found
\* uncached, and the lines of the uncached names come in the order the names
\* have in the truncated input array.
C1_CachedFirstThenInputOrder ==
    \A r \in Requests :
        LET q == req[r] IN
        /\ Len(q.lineLog) = Len(q.stream)
        /\ \A a \in LoopLines(q), b \in FlushLines(q) : b < a
        /\ \A j \in FlushLines(q) :
              \E k \in 1..Len(q.pre) :
                 /\ q.pre[k].found = "cached"
                 /\ q.pre[k].name = q.stream[j].artist
        /\ \A j \in LoopLines(q) :
              /\ q.lineLog[j].idx \in 1..Len(q.pre)
              /\ q.pre[q.lineLog[j].idx].found = "uncached"
              /\ q.stream[j].artist = q.limitedArtists[q.lineLog[j].idx]
        /\ \A a, b \in LoopLines(q) :
              a < b => q.lineLog[a].idx < q.lineLog[b].idx

\* a closed stream whose first line is the cached second name of the array
\* and whose second line is the uncached first name
C1_Witness ==
    \E r \in Requests :
        LET q == req[r] IN
        /\ q.closed
        /\ Len(q.limitedArtists) = 2
        /\ q.limitedArtists[1] # q.limitedArtists[2]
        /\ Len(q.stream) = 2
        /\ q.lineLog[1].src = "flush"
        /\ q.stream[1].artist = q.limitedArtists[2]
        /\ q.lineLog[2].src = "loop"
        /\ q.stream[2].artist = q.limitedArtists[1]

\* the line has coordinates or is the Unknown sentinel
Located(line) ==
    \/ line.location_coord # <<>>
    \/ line.location_name = Unknown

\* C2 as stated: every line emitted by POST /api/artists has a non-null
\* location_coord or location_name "Unknown"; a name without coordinates is
\* never sent.
C2_NoPartialLine ==
    \A r \in Requests :
        \A j \in 1..Len(req[r].stream) : Located(req[r].stream[j])

\* C2 amended: every line flushed from the pre-check's cached results has
\* coordinates or is the Unknown sentinel; a line with another location_name
\* and null coordinates is sent only for an occurrence the pre-check found
\* uncached: after resolveArtistLocation ran for it, after the geocoding of
\* its partial entry failed again, or from a cached entry with no name.
C2_PartialLineOnlyFromLoop ==
    \A r \in Requests :
        LET q == req[r] IN
        \A j \in 1..Len(q.stream) :
            \/ Located(q.stream[j])
            \/ /\ q.lineLog[j].src = "loop"
               /\ \/ /\ q.lineLog[j].how = "resolved"
                     /\ \E c \in 1..Len(q.resolveCalls) :
                           q.resolveCalls[c].idx = q.lineLog[j].idx
                  \/ /\ q.lineLog[j].how = "retryFailed"
                     /\ \E c \in 1..Len(q.geocodeCalls) :
                           /\ q.geocodeCalls[c].idx = q.lineLog[j].idx
                           /\ ~q.geocodeCalls[c].geo.found
                  \/ /\ q.lineLog[j].how = "hit"
                     /\ q.stream[j].location_name = <<>>

\* a line with a place name and null coordinates has been sent after the
\* geocoding of a partial entry failed
C2_Witness ==
    \E r \in Requests :
        \E j \in 1..Len(req[r].stream) :
            /\ ~Located(req[r].stream[j])
            /\ req[r].stream[j].location_name = Pa
            /\ req[r].lineLog[j].how = "retryFailed"

\* the occurrences (indices into limitedArtists) for which the request has
\* called resolveArtistLocation, geocodeLocation or cache.put
Resolved(q) == { q.resolveCalls[c].idx : c \in 1..Len(q.resolveCalls) }

Geocoded(q) == { q.geocodeCalls[c].idx : c \in 1..Len(q.geocodeCalls) }

PutFor(q) == { q.puts[c].idx : c \in 1..Len(q.puts) }

\* the entry the key of the k-th name held when the request arrived
EntryAtStart(q, k) == q.cache0[cacheKey(q.limitedArtists[k])]

\* C5 as stated: for a name whose cache entry is serviceable at pre-check
\* time resolveArtistLocation and geocodeLocation are not called, and no
\* cache put is issued for its key during the request.
C5_ServiceableNeverResolved ==
    \A r \in Requests :
        LET q == req[r] IN
        \A k \in 1..Len(q.pre) :
            (hasCache /\ serviceable(EntryAtStart(q, k)))
            => /\ \A c \in 1..Len(q.resolveCalls) :
                     q.resolveCalls[c].name # q.limitedArtists[k]
               /\ \A c \in 1..Len(q.puts) :
                     q.puts[c].key # cacheKey(q.limitedArtists[k])
               /\ k \notin Geocoded(q)

\* C5 amended: an occurrence of a name whose pre-check read returns a
\* serviceable entry is answered from that entry in the flush, and
\* resolveArtistLocation, geocodeLocation and cache.put are not called for
\* that occurrence; when the entry of a key is serviceable at pre-check time,
\* they are called under that key only for an occurrence whose pre-check
\* read threw.
C5_ServiceableReadIsAnswered ==
    \A r \in Requests :
        LET q == req[r] IN
        \A k \in 1..Len(q.pre) :
            /\ q.pre[k].found = "cached"
               => /\ q.pre[k].ok
                  /\ serviceable(q.pre[k].entry)
                  /\ q.pre[k].entry = EntryAtStart(q, k)
                  /\ k \notin Resolved(q) \cup Geocoded(q) \cup PutFor(q)
                  /\ q.pc \notin { "precheck", "flush" }
                     => \E j \in FlushLines(q) :
                           q.stream[j] = Line(q.limitedArtists[k],
                                              q.pre[k].entry[1])
            /\ (hasCache /\ serviceable(EntryAtStart(q, k))
                    /\ k \in Resolved(q) \cup Geocoded(q) \cup PutFor(q))
               => ~q.pre[k].ok

\* two spellings of one key: the first was read and flushed from its
\* serviceable entry, the read of the second threw twice and its result was
\* put under the shared key
C5_Witness ==
    \E r \in Requests :
        LET q == req[r] IN
        /\ q.closed
        /\ Len(q.pre) = 2
        /\ q.limitedArtists[1] # q.limitedArtists[2]
        /\ serviceable(EntryAtStart(q, 1))
        /\ q.pre[1].found = "cached"
        /\ q.stream[1] = Line(q.limitedArtists[1], q.pre[1].entry[1])
        /\ Resolved(q) = { 2 }
        /\ \E c \in 1..Len(q.puts) :
              q.puts[c].key = cacheKey(q.limitedArtists[1])

\* the request is between the end of getArtistLocation and the enqueue of
\* its line, and getArtistLocation went through resolveArtistLocation
JustResolved(q) == q.pc = "enqueue" /\ q.how = "resolved"

\* C6: with a cache configured, the result of a name resolved through the
\* orchestrator (the Unknown sentinel included) is put under the key
\* "artist:" followed by the lower-cased name, so names that differ only in
\* letter case share one entry, and every put of the handler carries
\* expirationTtl = 2592000.
C6_PutUnderLowerCasedKeyWithTtl ==
    /\ \A n1, n2 \in ArtistNames :
          toLowerCase(n1) = toLowerCase(n2) => cacheKey(n1) = cacheKey(n2)
    /\ \A r \in Requests :
          LET q == req[r] IN
          /\ \A c \in 1..Len(q.puts) :
                /\ q.puts[c].expirationTtl = 2592000
                /\ q.puts[c].key =
                      ArtistPrefix \o toLowerCase(q.limitedArtists[q.puts[c].idx])
          /\ (hasCache /\ JustResolved(q))
             => LET last == q.puts[Len(q.puts)]
                    name == q.uncachedArtists[q.i]
                IN  /\ Len(q.puts) >= 1
                    /\ last.idx = q.uncachedIdx[q.i]
                    /\ last.value = q.result
                    /\ last.ok =>
                          cache[ArtistPrefix \o toLowerCase(name)] = << q.result >>

\* the Unknown sentinel resolved for "Ab" has been stored under "artist:ab",
\* where the other spelling finds it
C6_Witness ==
    \E r \in Requests :
        LET q == req[r] IN
        /\ hasCache
        /\ JustResolved(q)
        /\ q.uncachedArtists[q.i] = Ab
        /\ q.result = UnknownLocation
        /\ q.puts[Len(q.puts)].ok
        /\ q.cache0[cacheKey(<<"a","b">>)] # << UnknownLocation >>
        /\ cache[cacheKey(<<"a","b">>)] = << UnknownLocation >>

\* the k-th name's key held a partial entry when the request arrived
PartialAtStart(q, k) ==
    /\ hasCache
    /\ EntryAtStart(q, k) # <<>>
    /\ partial(EntryAtStart(q, k)[1])

\* the line of the k-th occurrence has been enqueued by the loop
Emitted(q, k) == \E j \in LoopLines(q) : q.lineLog[j].idx = k

\* C7 as stated: in the batch POST path a name whose cache entry is partial
\* is treated as a miss and re-resolved through the full pipeline:
\* resolveArtistLocation is invoked for it.
C7_PartialIsResolved ==
    \A r \in Requests :
        LET q == req[r] IN
        \A k \in 1..Len(q.pre) :
            (PartialAtStart(q, k) /\ Emitted(q, k))
            => /\ q.pre[k].found = "uncached"
               /\ k \in Resolved(q)

\* C7 amended: in the batch POST path a name whose cache entry is partial is
\* treated as a miss by the pre-check and handed to getArtistLocation, which
\* geocodes the stored location_name again; resolveArtistLocation is invoked
\* for it only if getArtistLocation's own cache read throws or finds no
\* entry, or the put that writes the geocoded entry back throws.
C7_PartialIsResolvedOnlyAfterThrow ==
    \A r \in Requests :
        LET q == req[r] IN
        \A k \in 1..Len(q.pre) :
            PartialAtStart(q, k)
            => /\ q.pre[k].found = "uncached"
               /\ k \in Resolved(q)
                  => \/ \E c \in 1..Len(q.galReads) :
                          /\ q.galReads[c].idx = k
                          /\ ~q.galReads[c].ok \/ q.galReads[c].entry = <<>>
                     \/ \E c \in 1..Len(q.puts) :
                          /\ q.puts[c].idx = k
                          /\ q.puts[c].after = "retry"
                          /\ ~q.puts[c].ok
               /\ (Emitted(q, k) /\ k \notin Resolved(q))
                  => \/ k \in Geocoded(q)
                     \/ \E c \in 1..Len(q.galReads) :
                          /\ q.galReads[c].idx = k
                          /\ q.galReads[c].entry # EntryAtStart(q, k)

\* the line of a name with a partial entry has been sent after a second
\* geocoding of the stored name, and the resolver never ran
C7_Witness ==
    \E r \in Requests :
        LET q == req[r] IN
        /\ q.closed
        /\ Len(q.pre) = 1
        /\ PartialAtStart(q, 1)
        /\ Emitted(q, 1)
        /\ Geocoded(q) = { 1 }
        /\ Resolved(q) = {}

\* the reads of getArtistLocation that returned a partial entry and whose
\* geocoding step is over
PartialReads(q) ==
    { c \in 1..Len(q.galReads) :
        /\ q.galReads[c].ok
        /\ q.galReads[c].entry # <<>>
        /\ partial(q.galReads[c].entry[1])
        /\ ~(q.pc = "geocode" /\ c = Len(q.galReads)) }

\* the geocodeLocation call that followed the read of the occurrence
RetryOf(q, idx) ==
    CHOOSE g \in { q.geocodeCalls[c] : c \in 1..Len(q.geocodeCalls) } :
        g.idx = idx

\* C8: when getArtistLocation reads a partial entry it calls geocodeLocation
\* on the stored location_name; if that succeeds, location_name and
\* location_coord of the entry are both replaced by the geocoder's values and
\* the entry is written back under the same key; if it fails, the cache entry
\* is left unchanged.
C8_PartialRetry ==
    \A r \in Requests :
        LET q == req[r]
            key == ArtistPrefix \o toLowerCase(q.uncachedArtists[q.i])
        IN
        /\ \A c \in PartialReads(q) :
              /\ q.galReads[c].idx \in Geocoded(q)
              /\ RetryOf(q, q.galReads[c].idx).entry = q.galReads[c].entry[1]
              /\ RetryOf(q, q.galReads[c].idx).q =
                    q.galReads[c].entry[1].location_name
        /\ q.pc = "putRetry"
           => LET g == q.geocodeCalls[Len(q.geocodeCalls)] IN
              /\ g.geo.found
              /\ q.cached = << Entry(g.geo.displayName, g.geo.coords) >>
              /\ cache[key] = << g.entry >>
        /\ (q.pc = "enqueue" /\ q.how = "retried")
           => LET g == q.geocodeCalls[Len(q.geocodeCalls)]
                  last == q.puts[Len(q.puts)]
              IN  /\ last.key = key
                  /\ last.after = "retry"
                  /\ last.value = Entry(g.geo.displayName, g.geo.coords)
                  /\ cache[key] = << last.value >>
                  /\ q.result = last.value
        /\ (q.pc = "enqueue" /\ q.how = "retryFailed")
           => LET g == q.geocodeCalls[Len(q.geocodeCalls)] IN
              /\ ~g.geo.found
              /\ g.idx = q.uncachedIdx[q.i]
              /\ g.idx \notin PutFor(q)
              /\ cache[key] = << g.entry >>
              /\ q.result = g.entry

\* a partial entry "Pa" has been geocoded and written back with the
\* geocoder's display name, which differs from the stored one
C8_Witness ==
    \E r \in Requests :
        LET q == req[r] IN
        /\ q.pc = "enqueue"
        /\ q.how = "retried"
        /\ q.geocodeCalls[Len(q.geocodeCalls)].entry = Entry(Pa, <<>>)
        /\ q.result.location_name # Pa
        /\ q.result.location_coord # <<>>
        /\ cache[cacheKey(q.uncachedArtists[q.i])] = << q.result >>

\* C9 as stated: every value the handler writes to the cache, after a resolve
\* or after a partial-entry retry, is {location_name: "Unknown",
\* location_coord: null} or has a non-empty location_name, and "Unknown"
\* never comes with non-null coordinates.
C9_WrittenValuesWellFormed ==
    \A r \in Requests :
        \A c \in 1..Len(req[r].puts) :
            LET value == req[r].puts[c].value IN
            \/ value = UnknownLocation
            \/ /\ value.location_name # <<>>
               /\ ~(value.location_name = Unknown
                        /\ value.location_coord # <<>>)

\* every cache read of the request under the key has answered
ReadsAnswered(q, key) ==
    /\ \A k \in 1..Len(q.pre) :
          cacheKey(q.pre[k].name) = key => q.pre[k].ok
    /\ \A c \in 1..Len(q.galReads) :
          cacheKey(q.limitedArtists[q.galReads[c].idx]) = key
          => q.galReads[c].ok

\* C10 as stated: for any entry e stored under a name's key, a POST
\* /api/artists for that name emits the line {artist: name, ...e} with
\* exactly e's location_name and location_coord, and leaves e unchanged in
\* the cache.
C10_RoundTrip ==
    \A r \in Requests :
        LET q == req[r] IN
        \A k \in 1..Len(q.pre) :
            (hasCache /\ q.pc = "done" /\ EntryAtStart(q, k) # <<>>)
            => /\ \E j \in 1..Len(q.stream) :
                     q.stream[j] = Line(q.limitedArtists[k],
                                        EntryAtStart(q, k)[1])
               /\ cache[cacheKey(q.limitedArtists[k])] = EntryAtStart(q, k)

\* C10 amended: for any entry e stored under a name's key that is not
\* partial, a POST /api/artists for that name whose cache reads of the key
\* answer emits the line {artist: name, ...e} with exactly e's location_name
\* and location_coord, emits no other line for the key, and leaves e
\* unchanged in the cache.
C10_RoundTripOfNonPartial ==
    \A r \in Requests :
        LET q == req[r] IN
        \A k \in 1..Len(q.pre) :
            LET key == cacheKey(q.limitedArtists[k])
                e == EntryAtStart(q, k)
            IN  (hasCache /\ e # <<>> /\ ~partial(e[1])
                    /\ ReadsAnswered(q, key))
                => /\ cache[key] = e
                   /\ \A j \in 1..Len(q.stream) :
                         cacheKey(q.stream[j].artist) = key
                         => q.stream[j] = [artist |-> q.stream[j].artist,
                                           location_name |-> e[1].location_name,
                                           location_coord |-> e[1].location_coord]
                   /\ q.pc \in { "close", "done" }
                      => \E j \in 1..Len(q.stream) :
                            q.stream[j].artist = q.limitedArtists[k]

\* the request for "Ab" is over: its one line is the stored full entry and
\* the entry is still in the cache
C10_Witness ==
    \E r \in Requests :
        LET q == req[r]
            e == Entry(Pa \o CommaSpace \o Oz, <<11, 12>>)
        IN  /\ hasCache
            /\ q.pc = "done"
            /\ q.limitedArtists = << Ab >>
            /\ q.cache0[cacheKey(Ab)] = << e >>
            /\ q.stream = << [artist |-> Ab,
                              location_name |-> e.location_name,
                              location_coord |-> e.location_coord] >>
            /\ cache[cacheKey(Ab)] = << e >>

\* the lines of the request, as a set
LinesOf(q) == { q.stream[j] : j \in 1..Len(q.stream) }

C13_FailedPutKeepsLine ==
    \A r \in Requests :
        LET q == req[r] IN
        \A c \in 1..Len(q.puts) : \A j \in LoopLines(q) :
            (~q.puts[c].ok /\ q.lineLog[j].idx = q.puts[c].idx)
            => q.stream[j] = Line(q.limitedArtists[q.puts[c].idx],
                                  q.puts[c].value)

\* the input indices of the cache reads, geocoder calls, resolver calls and
\* puts made after the client went away
AfterCancel(q) ==
    LET at == q.cancelAt[1] IN
    { q.galReads[c].idx : c \in (at.gets + 1)..Len(q.galReads) } \cup
    { q.geocodeCalls[c].idx : c \in (at.geocodes + 1)..Len(q.geocodeCalls) } \cup
    { q.resolveCalls[c].idx : c \in (at.resolves + 1)..Len(q.resolveCalls) } \cup
    { q.puts[c].idx : c \in (at.puts + 1)..Len(q.puts) }

\* no line after the disconnect, and a result resolved with a cache
\* configured is put before the producer ends
AbortsAtEnqueue(q) ==
    /\ Len(q.stream) = q.cancelAt[1].lines
    /\ (q.pc \in { "close", "done" } /\ hasCache) =>
            \A c \in 1..Len(q.resolveCalls) :
                \E p \in 1..Len(q.puts) :
                    /\ q.puts[p].idx = q.resolveCalls[c].idx
                    /\ q.puts[p].after = "resolve"

\* C14 as stated: if the client disconnects during the stream, the producer
\* aborts at its next enqueue; at most the resolve already in flight
\* completes, its result is still written to the cache, and no later name is
\* looked up or resolved.
C14_OnlyInFlightCompletes ==
    \A r \in Requests :
        LET q == req[r] IN
        q.cancelled =>
            /\ AbortsAtEnqueue(q)
            /\ AfterCancel(q) \subseteq
                    IF q.cancelAt[1].pc = "sleep" THEN {}
                    ELSE { q.uncachedIdx[q.cancelAt[1].i] }

\* C14, amended: the producer aborts at its next enqueue; at most one name is
\* still looked up and resolved after the disconnect, the one in flight or,
\* when the disconnect falls into the pause between two names, the next one;
\* its result is still written to the cache, and no later name is looked up
\* or resolved.
C14_AtMostOneNameCompletes ==
    \A r \in Requests :
        LET q == req[r] IN
        q.cancelled =>
            /\ AbortsAtEnqueue(q)
            /\ AfterCancel(q) \subseteq { q.uncachedIdx[q.cancelAt[1].i] }

\* the client went away while the first of two uncached names was being
\* resolved: its result was put, no line was sent, the second name was never
\* looked up
C14_Witness ==
    LET q == req["r1"] IN
    /\ q.cancelled
    /\ q.pc = "done"
    /\ hasCache
    /\ q.cancelAt[1].pc = "resolve"
    /\ q.cancelAt[1].i = 1
    /\ Len(q.uncachedArtists) >= 2
    /\ Len(q.resolveCalls) = 1
    /\ \E p \in 1..Len(q.puts) : q.puts[p].ok /\ q.puts[p].after = "resolve"
    /\ q.stream = <<>>

\* the values the requests have put successfully
PutValues ==
    UNION { { req[r].puts[c].value :
              c \in { d \in 1..Len(req[r].puts) : req[r].puts[d].ok } } :
            r \in AllRequests }

\* the values the requests have handed to put, and the data of their lines
WrittenOrEmitted ==
    UNION { { req[r].puts[c].value : c \in 1..Len(req[r].puts) } \cup
            { [location_name |-> req[r].stream[j].location_name,
               location_coord |-> req[r].stream[j].location_coord] :
              j \in 1..Len(req[r].stream) } :
            r \in AllRequests }

BothStarted == \A r \in AllRequests : req[r].pc # "idle"

\* the key had no entry when the first of the requests arrived
KeyWasEmpty == \E r \in AllRequests : req[r].cache0[cacheKey(Ab)] = <<>>

\* C15: when several POST requests resolve the same uncached name
\* concurrently, under every interleaving of their cache gets and puts the
\* entry stored under the key is the value one of them wrote (no mixture, and
\* no missing entry once a put succeeded), and with unchanged upstream data
\* all of them write and emit the same value.
C15_LastWriterWins ==
    (BothStarted /\ KeyWasEmpty) =>
        /\ cache[cacheKey(Ab)] \in
                IF PutValues = {} THEN { <<>> }
                ELSE { << v >> : v \in PutValues }
        /\ Cardinality(WrittenOrEmitted) <= 1

\* both requests found the key empty, resolved the name and put the result;
\* the entry is the value both wrote and both sent
C15_Witness ==
    /\ hasCache
    /\ \A r \in AllRequests :
        /\ req[r].pc = "done"
        /\ req[r].cache0[cacheKey(Ab)] = <<>>
        /\ Len(req[r].resolveCalls) = 1
        /\ Len(req[r].stream) = 1
        /\ \E c \in 1..Len(req[r].puts) : req[r].puts[c].ok
    /\ req["r1"].artists # req["r2"].artists
    /\ \E v \in PutValues : cache[cacheKey(Ab)] = << v >>

\* the keys of the listed names
KeysOf(artists) == { cacheKey(artists[j]) : j \in 1..Len(artists) }

\* the listed keys are gone and every other key is as it was; the answer is
\* 200 with the names in input order; a read of a listed key is a miss
DeletedAll(q) ==
    /\ q.status = 200
    /\ q.deleted = q.artists
    /\ \A key \in DeleteKeys :
        cache[key] = IF key \in KeysOf(q.artists) THEN <<>> ELSE q.cache0[key]
    /\ \A k \in 1..Len(req["r2"].pre) :
        req["r2"].pre[k].ok => req["r2"].pre[k].entry = <<>>

\* C16 as stated: DELETE /api/cache with a cache configured deletes the key
\* artist:<lower(name)> of every listed name, leaves every other key
\* unchanged, and answers 200 with {deleted: [...]} in input order;
\* immediately afterwards a read of each such key is a miss.
C16_DeleteRemovesListedKeys ==
    LET q == req["r1"] IN
    (q.method = "DELETE" /\ q.pc = "done" /\ hasCache) => DeletedAll(q)

\* C16, amended: the same, provided no delete of the store throws; a delete
\* that throws ends the request with 500, the keys of the names before it
\* deleted and every other key unchanged.
C16_DeleteRemovesListedKeysUnlessThrow ==
    LET q == req["r1"]
        failed == \E c \in 1..Len(q.deletes) : ~q.deletes[c].ok
    IN  (q.method = "DELETE" /\ q.pc = "done" /\ hasCache) =>
            IF failed
            THEN /\ q.status = 500
                 /\ \A key \in DeleteKeys :
                        cache[key] = IF key \in KeysOf(q.deleted) THEN <<>>
                                     ELSE q.cache0[key]
            ELSE DeletedAll(q)

\* two spellings of a key that held an entry were deleted, the other key kept
\* its entry, and the read that followed was a miss
C16_Witness ==
    LET q == req["r1"] IN
    /\ hasCache
    /\ q.method = "DELETE"
    /\ q.status = 200
    /\ q.deleted = << Ab, <<"a", "b">> >>
    /\ q.cache0[cacheKey(Ab)] # <<>>
    /\ cache[cacheKey(Ab)] = <<>>
    /\ cache[cacheKey(<<"C", "d">>)] # <<>>
    /\ Len(req["r2"].pre) = 2
    /\ req["r2"].pre[1].ok

\* the input indices the request has worked on: pre-check reads, cache reads
\* of getArtistLocation, geocoder and resolver calls, puts, loop lines
Touched(q) ==
    (1..Len(q.pre)) \cup
    { q.galReads[c].idx : c \in 1..Len(q.galReads) } \cup
    Geocoded(q) \cup Resolved(q) \cup PutFor(q) \cup
    { q.lineLog[j].idx : j \in LoopLines(q) }

\* C17: for an input array longer than 50 only the first 50 names are looked
\* up in the cache, resolved, written back or emitted; no name at index 50
\* or beyond (counted from 0) causes a cache access, an upstream call or an
\* output line.
C17_OnlyFirstFifty ==
    \A r \in Requests :
        LET q == req[r] IN
        Len(q.artists) > MaxPerRequest =>
            /\ q.limitedArtists = SubSeq(q.artists, 1, MaxPerRequest)
            /\ Touched(q) \subseteq 1..MaxPerRequest
            /\ Len(q.uncachedArtists) <= MaxPerRequest
            /\ \A j \in 1..Len(q.stream) :
                \E k \in 1..MaxPerRequest : q.stream[j].artist = q.artists[k]
            /\ \A c \in 1..Len(q.resolveCalls) :
                \E k \in 1..MaxPerRequest :
                    q.resolveCalls[c].name = q.artists[k]

\* a request with more than 50 names, none of them cached: the first was
\* resolved and put, the 50th was read from the cache and sent as the last
\* line
C17_Witness ==
    LET q == req["r1"] IN
    /\ Len(q.artists) > MaxPerRequest
    /\ q.pc = "done"
    /\ hasCache
    /\ 1 \in Resolved(q)
    /\ 1 \in PutFor(q)
    /\ \E c \in 1..Len(q.galReads) : q.galReads[c].idx = MaxPerRequest
    /\ Len(q.stream) = MaxPerRequest

\* the request read, wrote and deleted nothing in the cache and called
\* neither the resolver nor the geocoder
NoAccess(q) ==
    /\ q.pre = <<>> /\ q.galReads = <<>> /\ q.puts = <<>> /\ q.deletes = <<>>
    /\ q.resolveCalls = <<>> /\ q.geocodeCalls = <<>>
    /\ q.pc = "done" => cache = q.cache0

\* C18: a POST /api/artists, and likewise a DELETE /api/cache, whose JSON
\* body has no artists field, a non-array artists field or an empty array is
\* answered 400 with {"error":"Invalid artists array"}, and performs no
\* cache read, write or delete and no resolve.
C18_InvalidBodyIs400 ==
    \A r \in Requests :
        LET q == req[r] IN
        (q.body \in InvalidBodies /\ ~jsonThrows(q.body)) =>
            /\ q.status = 400
            /\ q.reply = "Invalid artists array"
            /\ NoAccess(q)

\* the method/path pairs the handler names
Served(method, path) ==
    \/ method = "OPTIONS"
    \/ method = "GET" /\ path = "/health"
    \/ method = "POST" /\ path = "/api/artists"
    \/ method = "DELETE" /\ path = "/api/cache"

\* C19 as stated: a request whose method/path pair is not one of OPTIONS
\* (any path), GET /health, POST /api/artists or DELETE /api/cache is
\* answered 404 Not Found and causes no cache access and no upstream call.
C19_UnknownRouteIs404 ==
    \A r \in Requests :
        LET q == req[r] IN
        (q.pc # "idle" /\ ~Served(q.method, q.path)) =>
            /\ q.status = 404
            /\ q.reply = "Not Found"
            /\ NoAccess(q)

\* C19, amended: a request whose method/path pair is not one of OPTIONS (any
\* path), /health with any method, POST /api/artists or DELETE /api/cache is
\* answered 404 Not Found and causes no cache access and no upstream call;
\* /health is answered 200 OK for every method, also without any access.
C19_UnknownRouteIs404HealthAnyMethod ==
    \A r \in Requests :
        LET q == req[r] IN
        (q.pc # "idle" /\ ~Served(q.method, q.path)) =>
            /\ NoAccess(q)
            /\ IF q.path = "/health"
               THEN q.status = 200 /\ q.reply = "OK"
               ELSE q.status = 404 /\ q.reply = "Not Found"

\* DELETE /api/artists was answered 404 with the cached entry left alone
C19_Witness ==
    LET q == req["r1"] IN
    /\ q.method = "DELETE"
    /\ q.path = "/api/artists"
    /\ q.status = 404
    /\ hasCache
    /\ cache[cacheKey(Ab)] # <<>>
    /\ NoAccess(q)

\* the answers before the last were all rate limited
OnlyLastMayPass(statuses) ==
    \A j \in 1..(Len(statuses) - 1) :
        rateLimited(statuses[j]) /\ ~isOk(statuses[j])

\* C20: fetchWithRetry(url, options, maxRetries) calls fetch at most
\* maxRetries times in total; it returns the first response that is ok or
\* whose status is neither 429 nor 503, without any further call, and
\* returns null exactly when each of the maxRetries calls was answered 429 or
\* 503.
C20_AtMostMaxRetriesCalls ==
    /\ Len(fw.statuses) <= fw.maxRetries
    /\ OnlyLastMayPass(fw.statuses)
    /\ fw.ret = "response" =>
            /\ fw.statuses # <<>>
            /\ fw.status = fw.statuses[Len(fw.statuses)]
            /\ isOk(fw.status) \/ ~rateLimited(fw.status)
    /\ (fw.pc = "loop" /\ fw.statuses # <<>>) =>
            rateLimited(fw.statuses[Len(fw.statuses)])
    /\ fw.pc = "done" =>
            (fw.ret = "null" <=>
                /\ Len(fw.statuses) = fw.maxRetries
                /\ \A j \in 1..Len(fw.statuses) : rateLimited(fw.statuses[j]))
    /\ fw.pc # "done" => fw.ret = "none"

\* two calls, 429 and 503, and null returned
C20_Witness ==
    /\ fw.pc = "done"
    /\ fw.ret = "null"
    /\ fw.maxRetries = 2
    /\ fw.statuses = << 429, 503 >>

\* after the exception nothing is resolved and nothing is enqueued
FrozenAfterThrow(r) ==
    req[r].thrown =>
        /\ req'[r].stream = req[r].stream
        /\ req'[r].resolveCalls = req[r].resolveCalls
        /\ req'[r].puts = req[r].puts

\* the lines of the stream are those of the names before the failing one
OnlyEarlierLines(q) ==
    q.thrown =>
        /\ Len(q.stream) = q.i - 1
        /\ Len(q.resolveCalls) = q.i - 1
        /\ \A j \in 1..Len(q.stream) : q.stream[j].artist = q.uncachedArtists[j]
        /\ (q.pc = "done" => q.closed)

\* C12: if resolving an uncached name throws, the producer resolves no
\* further name, emits no line for the failing name or a later one, leaves
\* the lines already emitted as they are, and closes the stream; every
\* stream that was started is eventually closed, with or without exception.
C12_ThrowClosesStream ==
    /\ [](OnlyEarlierLines(req["r1"]))
    /\ [][FrozenAfterThrow("r1")]_vars
    /\ ((req["r1"].pc = "flush") ~> req["r1"].closed)

\* the second name threw after the line of the first was sent
C12_Witness ==
    /\ req["r1"].thrown
    /\ req["r1"].closed
    /\ Len(req["r1"].stream) = 1
    /\ req["r1"].i = 2
    /\ Len(req["r1"].uncachedArtists) >= 2

\* C21: with the default maxRetries a request that keeps being answered 429
\* or 503 is retried up to 2 times after the initial attempt (3 requests in
\* total), with a wait of 500 ms before the first retry and of 1000 ms before
\* the second; only then null is returned, and no wait follows the last
\* attempt.
C21_DefaultRetriesTwice ==
    (fw.given = <<>> /\ fw.ret = "null") =>
        /\ Len(fw.statuses) = DefaultMaxRetries + 1
        /\ fw.delays = << RetryDelay, 2 * RetryDelay >>

\* the query record of the string being geocoded
QueryOf(full) == CHOOSE q \in GeoQueries : q.full = full

\* the queries geocodeLocation may issue for q, in order
QueryPlan(q) ==
    << Call("nominatim", q.full), Call("photon", q.full) >> \o
    (IF q.comma
     THEN << Call("nominatim", q.last), Call("photon", q.last) >>
     ELSE <<>>)

\* the service of the call has a result for its argument
Answered(w, call) ==
    LET table == IF call.svc = "nominatim" THEN w.nominatim ELSE w.photon
    IN  call.arg \in DOMAIN table /\ table[call.arg].ok

\* what geocodeLocation returns when the call is the first that is answered
ValueOf(call) ==
    IF call.svc = "nominatim"
    THEN [found |-> TRUE,
          coords |-> << 10 + Len(call.arg), 20 + Len(call.arg) >>,
          displayName |-> normalizeDisplayName(call.arg),
          addressType |-> <<"c","i","t","y">>]
    ELSE [found |-> TRUE,
          coords |-> << 30 + Len(call.arg), 40 + Len(call.arg) >>,
          displayName |-> call.arg, addressType |-> <<>>]

\* C22: geocodeLocation queries in the order Nominatim(full string),
\* Photon(full string) and, only if the string contains a comma,
\* Nominatim(last comma segment), Photon(last comma segment); a query is
\* issued only if all earlier ones returned nothing; the first hit is
\* returned, a Photon hit with the queried string as display name and the
\* coordinates as [lat, lon]; null is returned only when every issued query
\* returned nothing.
C22_GeocodeOrder ==
    rPhase = "done" =>
        LET plan == QueryPlan(QueryOf(rName))
            hits == { j \in 1..Len(plan) : Answered(rWorld, plan[j]) }
            first == IF hits = {} THEN 0
                     ELSE CHOOSE j \in hits : \A i \in hits : j <= i
        IN  /\ rOut.calls = SubSeq(plan, 1, IF first = 0 THEN Len(plan)
                                            ELSE first)
            /\ rOut.val = IF first = 0 THEN NoGeo ELSE ValueOf(plan[first])

\* "Pa, Wa, Oz": both geocoders know nothing of the full string, Nominatim
\* nothing of "Oz", and Photon's hit for "Oz" is returned as "Oz"
C22_Witness ==
    /\ rPhase = "done"
    /\ rName = PaWaOz
    /\ Len(rOut.calls) = 4
    /\ rOut.val.found
    /\ rOut.val.displayName = Oz
    /\ rOut.val.coords = << 32, 42 >>

\* the positions where a whitespace-delimited token of s starts
TokenStarts(s) ==
    { i \in 1..Len(s) : s[i] # " " /\ (i = 1 \/ s[i - 1] = " ") }

\* the token of s that starts at position i
TokenAt(s, i) ==
    LET last == CHOOSE j \in i..Len(s) :
                    /\ \A k \in i..j : s[k] # " "
                    /\ (j = Len(s) \/ s[j + 1] = " ")
    IN  SubSeq(s, i, last)

\* the string s without its blanks at either end
Stripped(s) ==
    LET inside == { i \in 1..Len(s) : s[i] # " " }
    IN  IF inside = {} THEN <<>>
        ELSE SubSeq(s, CHOOSE i \in inside : \A j \in inside : i <= j,
                       CHOOSE i \in inside : \A j \in inside : i >= j)

\* C23: for a query of exactly one whitespace-delimited token,
\* verifyArtistMatch(q, c) is true if and only if lower(trim(q)) =
\* lower(trim(c)), that is, it coincides with isExactMatch(q, c).
C23_SingleTokenIsExact ==
    (rPhase = "done" /\ Cardinality(TokenStarts(rName)) = 1) =>
        /\ rOut.val <=>
            toLowerCase(Stripped(rName)) =
                toLowerCase(Stripped(rWorld.resultName))
        /\ rOut.val <=> isExactMatch(rName, rWorld.resultName)

\* " AB " matches " Ab"
C23_Witness ==
    /\ rPhase = "done"
    /\ Cardinality(TokenStarts(rName)) = 1
    /\ rName # rWorld.resultName
    /\ Len(rName) > Len(rWorld.resultName)
    /\ rOut.val

\* the tokens of q, by start position, of which neither the lower-cased
\* token nor the token without its last two characters occurs in lower(c)
MissingTokens(q, c) ==
    { i \in TokenStarts(q) :
        LET token == toLowerCase(TokenAt(q, i))
            lower == toLowerCase(c)
        IN  /\ \A k \in 0..(Len(lower) - Len(token)) :
                   SubSeq(lower, k + 1, k + Len(token)) # token
            /\ Len(token) > 2
            /\ \A k \in 0..(Len(lower) - (Len(token) - 2)) :
                   SubSeq(lower, k + 1, k + Len(token) - 2) #
                       SubSeq(token, 1, Len(token) - 2) }

\* C24: for a query of two or more tokens, verifyArtistMatch(q, c) is true
\* if and only if 5 * missing <= 2 * total, a token being missing when
\* neither the lower-cased token nor the token without its last two
\* characters is a substring of lower(c); it is true when no token is
\* missing, and false for a two-token query with one token missing.
C24_MultiTokenRatio ==
    LET total == Cardinality(TokenStarts(rName))
        missing == Cardinality(MissingTokens(rName, rWorld.resultName))
    IN  (rPhase = "done" /\ total >= 2) =>
            /\ rOut.val <=> 5 * missing <= 2 * total
            /\ missing = 0 => rOut.val
            /\ (total = 2 /\ missing = 1) => ~rOut.val

\* a three-token query matches although one token is missing, and a token
\* that is not in the result name counts as present through its prefix
C24_Witness ==
    /\ rPhase = "done"
    /\ Cardinality(TokenStarts(rName)) = 3
    /\ Cardinality(MissingTokens(rName, rWorld.resultName)) = 1
    /\ \E i \in TokenStarts(rName) :
           /\ i \notin MissingTokens(rName, rWorld.resultName)
           /\ ~includes(toLowerCase(rWorld.resultName),
                         toLowerCase(TokenAt(rName, i)))
    /\ rOut.val

\* the name, id and type of an area field
Triple(field) == [name |-> field.name, id |-> field.id, type |-> field.type]

\* C25: chooseBestArea returns null when neither area is present, the only
\* present area when one is missing, otherwise the area field if and only if
\* its type is at least as specific as the begin-area's (ties go to area)
\* and else the begin-area; the returned name, id and type belong to the
\* same input area.
C25_ChooseBestArea ==
    rPhase = "done" =>
        LET begin == rWorld.begin
            area == rWorld.area
        IN  /\ (begin.name = <<>> /\ area.name = <<>>) => rOut.val = NoArea
            /\ (begin.name # <<>> /\ area.name = <<>>) =>
                   rOut.val = Triple(begin)
            /\ (begin.name = <<>> /\ area.name # <<>>) =>
                   rOut.val = Triple(area)
            /\ (begin.name # <<>> /\ area.name # <<>>) =>
                   /\ rOut.val = Triple(area) <=> area.rank >= begin.rank
                   /\ rOut.val = Triple(begin) <=> area.rank < begin.rank

\* a town as area and a city as begin-area: the area is returned
C25_Witness ==
    /\ rPhase = "done"
    /\ rWorld.begin.name # <<>>
    /\ rWorld.area.name # <<>>
    /\ rWorld.begin.rank = rWorld.area.rank
    /\ rWorld.begin.type # rWorld.area.type
    /\ rOut.val = Triple(rWorld.area)

\* the places of the candidates that have score >= 70 and pass
\* verifyArtistMatch against the sort-name, or the name without a sort-name
PassingCandidates ==
    { i \in 1..Len(rWorld.mbSearch.artists) :
        LET artist == rWorld.mbSearch.artists[i]
        IN  /\ artist.score >= 70
            /\ verifyArtistMatch(rName, IF artist.sortName = <<>>
                                        THEN artist.name
                                        ELSE artist.sortName) }

\* the passing candidates that have an area name or whose name is the query
LocatedOrExact ==
    { i \in PassingCandidates :
        LET artist == rWorld.mbSearch.artists[i]
        IN  \/ artist.beginArea.name # <<>>
            \/ artist.area.name # <<>>
            \/ isExactMatch(rName, artist.name) }

\* the result is the candidate at place i with its raw area fields
ReturnsCandidate(i) ==
    LET artist == rWorld.mbSearch.artists[i]
    IN  /\ rOut.val.kind = "found"
        /\ rOut.val.mbid = artist.id
        /\ rOut.val.artistName = artist.name
        /\ rOut.val.beginArea = artist.beginArea.name
        /\ rOut.val.area = artist.area.name

\* C26 as stated: fetchFromMusicBrainz returns the first candidate, in
\* search order, that has score >= 70 and passes verifyArtistMatch against
\* its sort-name (or name); no later candidate is returned in preference to
\* an earlier one that passed both checks.
C26_FirstPassingReturned ==
    (rPhase = "done" /\ PassingCandidates # {}) =>
        \E i \in PassingCandidates :
            /\ \A j \in PassingCandidates : i <= j
            /\ ReturnsCandidate(i)

\* C26: fetchFromMusicBrainz returns the first candidate, in search order,
\* that has score >= 70, passes verifyArtistMatch against its sort-name (or
\* name) and has a begin-area or area or is an exact match of the query; no
\* later candidate is returned in preference to an earlier one that passed
\* these checks, and no candidate is returned when none passes them.
C26_FirstLocatedOrExactReturned ==
    rPhase = "done" =>
        /\ LocatedOrExact # {} =>
               \E i \in LocatedOrExact :
                   /\ \A j \in LocatedOrExact : i <= j
                   /\ ReturnsCandidate(i)
        /\ LocatedOrExact = {} => rOut.val.kind # "found"

\* the second candidate is returned although the first passed the score
\* and the name gates: the first has no area and is no exact match
C26_Witness ==
    /\ rPhase = "done"
    /\ PassingCandidates = { 1, 2 }
    /\ LocatedOrExact = { 2 }
    /\ rWorld.mbSearch.artists[2].sortName # <<>>
    /\ ReturnsCandidate(2)

\* C27 as stated: fetchFromMusicBrainz returns {noMatch: true} exactly when
\* the search returned at least one candidate and every candidate was
\* rejected by the score threshold or by the name gate; it returns null
\* exactly when the search returned no candidate or the request failed.
C27_NoMatchIffAllRejected ==
    rPhase = "done" =>
        /\ rOut.val = NoMatch <=>
               /\ rWorld.mbSearch.ok
               /\ Len(rWorld.mbSearch.artists) >= 1
               /\ PassingCandidates = {}
        /\ rOut.val = NoMbResult <=>
               \/ ~rWorld.mbSearch.ok
               \/ Len(rWorld.mbSearch.artists) = 0

\* C27: fetchFromMusicBrainz returns {noMatch: true} exactly when the search
\* returned at least one candidate and every candidate was rejected by the
\* score threshold, by the name gate, or for having no area without being
\* an exact match; it returns null exactly when the search returned no
\* candidate or the request failed.
C27_NoMatchIffNoneKept ==
    rPhase = "done" =>
        /\ rOut.val = NoMatch <=>
               /\ rWorld.mbSearch.ok
               /\ Len(rWorld.mbSearch.artists) >= 1
               /\ LocatedOrExact = {}
        /\ rOut.val = NoMbResult <=>
               \/ ~rWorld.mbSearch.ok
               \/ Len(rWorld.mbSearch.artists) = 0

\* noMatch although a candidate passed the score and the name gates
C27_Witness ==
    /\ rPhase = "done"
    /\ Len(rWorld.mbSearch.artists) = 2
    /\ PassingCandidates # {}
    /\ rOut.val = NoMatch

-----------------------------------------------------------------------------
(* Properties of the orchestrator                                          *)

Services(out) == { out.calls[i].svc : i \in 1..Len(out.calls) }

EncyclopediaServices ==
    { "sparql_person", "sparql_band", "wiki_search", "wiki_parse" }

\* C3: whenever fetchFromMusicBrainz returns {noMatch: true},
\* resolveArtistLocation returns {location_name: "Unknown", location_coord:
\* null} and issues no relationship, SPARQL, encyclopedia or geocoder
\* request: the search is the only request of the run.
C3_NoMatchIsUnknown ==
    (rPhase = "done"
        /\ fetchFromMusicBrainz(rWorld, rName).val.kind = "noMatch")
    => /\ rOut.val = UnknownLocation
       /\ Services(rOut) = { "mb_search" }

\* a rejected search has returned Unknown although the SPARQL endpoint knows
\* a place for the name and the geocoder knows the place
C3_Witness ==
    /\ rPhase = "done"
    /\ fetchFromMusicBrainz(rWorld, rName).val.kind = "noMatch"
    /\ fetchFromWikidata(rWorld, rName).val = Pa
    /\ geocodeLocation(rWorld, Pa).val.found
    /\ rOut.val = UnknownLocation

\* C4 as stated: when fetchFromMusicBrainz returns a candidate flagged
\* exactMatch, resolveArtistLocation issues no SPARQL artist query and no
\* encyclopedia query whatever relationship traversal returns, and its result
\* is Unknown unless the traversal produced a city-level area.
C4_ExactMatchSkipsEncyclopedia ==
    LET mb == fetchFromMusicBrainz(rWorld, rName).val
        person == fetchLocationViaRelationships(rWorld, mb.mbid).val
        cityFound == /\ person.kind = "found"
                     /\ isCityLevel(chooseBestArea(person).type)
    IN  (rPhase = "done" /\ mb.kind = "found" /\ mb.exactMatch)
        => /\ Services(rOut) \cap EncyclopediaServices = {}
           /\ cityFound \/ rOut.val = UnknownLocation

\* the requests of relationship traversal
RelationshipServices == { "mb_artist_rels", "mb_artist" }

\* C28: if the best area of the MusicBrainz candidate is city-level,
\* resolveArtistLocation makes no relationship, SPARQL-artist or encyclopedia
\* request and returns the outcome of geocodeMusicBrainzResult for that
\* area: the geocoder's display name and coordinates, or the area name with
\* null coordinates when geocoding fails.
C28_CityLevelGeocodedDirectly ==
    LET mb == fetchFromMusicBrainz(rWorld, rName).val
        bestArea == chooseBestArea(mb)
        geo == geocodeMusicBrainzResult(rWorld, bestArea)
    IN  (rPhase = "done" /\ mb.kind = "found" /\ isCityLevel(bestArea.type))
        => /\ Services(rOut) \cap
                  (RelationshipServices \cup EncyclopediaServices) = {}
           /\ rOut.calls = << Call("mb_search", rName) >> \o geo.calls
           /\ geo.val.found =>
                  rOut.val = [location_name |-> geo.val.displayName,
                              location_coord |-> geo.val.coords]
           /\ ~geo.val.found =>
                  rOut.val = [location_name |-> bestArea.name,
                              location_coord |-> <<>>]

\* the city of the candidate cannot be geocoded and is returned by name
\* with null coordinates, although the SPARQL endpoint knows a place
C28_Witness ==
    /\ rPhase = "done"
    /\ fetchFromMusicBrainz(rWorld, rName).val.kind = "found"
    /\ isCityLevel(chooseBestArea(
           fetchFromMusicBrainz(rWorld, rName).val).type)
    /\ fetchFromWikidata(rWorld, rName).val # <<>>
    /\ rOut.val = [location_name |-> Pa, location_coord |-> <<>>]

\* the candidate of the search and its best area
FirstResult == fetchFromMusicBrainz(rWorld, rName).val

FirstArea ==
    IF FirstResult.kind = "found"
       /\ (FirstResult.beginArea # <<>> \/ FirstResult.area # <<>>)
    THEN chooseBestArea(FirstResult) ELSE NoArea

\* the five sources in their order, each with the requests it makes and the
\* location it returns; relationship traversal is left out without an mbid
Traversal ==
    IF FirstResult.kind = "found" /\ FirstResult.mbid # <<>>
    THEN fetchLocationViaRelationships(rWorld, FirstResult.mbid)
    ELSE [val |-> NoMbResult, calls |-> <<>>]

Sources ==
    << Traversal,
       fetchFromWikidata(rWorld, rName),
       fetchFromWikipedia(rWorld, rName \o << " ","m","u","s","i","c","i","a","n" >>),
       fetchFromWikipedia(rWorld, rName \o << " ","b","a","n","d" >>),
       fetchFromWikipedia(rWorld, rName) >>

\* the area left for the last step: the person's if traversal found one
LastArea ==
    IF Traversal.val.kind = "found" THEN chooseBestArea(Traversal.val)
    ELSE FirstArea

\* the result that the location of source i leads to
ResultOf(i) ==
    IF i = 1 THEN geocodeArea(rWorld, LastArea, <<>>).val
    ELSE IF i = 2
    THEN locationOf(geocodeLocation(rWorld, Sources[2].val).val,
                    Sources[2].val)
    ELSE geocodeWikiLocation(rWorld, Sources[i].val, <<>>).val

RECURSIVE RequestsUpTo(_)
RequestsUpTo(j) ==
    IF j = 0 THEN <<>> ELSE RequestsUpTo(j - 1) \o Sources[j].calls

IsSourceRequest(call) ==
    call.svc \in RelationshipServices \cup EncyclopediaServices

\* the sources are consulted in order, a later one only if every earlier one
\* produced nothing; a consulted source that produced a location determines
\* the result; the area is geocoded when all five produced nothing; Unknown
\* (a place that is itself called "Unknown" aside) is returned only when
\* nothing was produced
InSourceOrder(Produced(_)) ==
    LET asked == SelectSeq(rOut.calls, IsSourceRequest)
    IN  \E j \in 0..5 :
            /\ asked = RequestsUpTo(j)
            /\ \A i \in 1..(j - 1) : ~Produced(i)
            /\ (j >= 1 /\ Produced(j)) => rOut.val = ResultOf(j)
            /\ (j = 5 /\ ~Produced(5) /\ LastArea # NoArea) =>
                   rOut.val = geocodeArea(rWorld, LastArea, <<>>).val
            /\ (rOut.val = UnknownLocation
                    /\ \A i \in 2..5 : Sources[i].val # Unknown) =>
                   /\ \A i \in 1..j : ~Produced(i)
                   /\ LastArea = NoArea

\* source i returned a location
ReturnedLocation(i) ==
    IF i = 1 THEN Sources[1].val.kind = "found" ELSE Sources[i].val # <<>>

\* source i returned a location, for traversal: one that is city-level
ReturnedUsableLocation(i) ==
    IF i = 1
    THEN Sources[1].val.kind = "found" /\ isCityLevel(LastArea.type)
    ELSE Sources[i].val # <<>>

NotCityLevelCase ==
    /\ rPhase = "done"
    /\ FirstResult.kind # "noMatch"
    /\ ~isCityLevel(FirstArea.type)

CapitalOf(name) ==
    IF name \in DOMAIN rWorld.capitals /\ rWorld.capitals[name].ok
       /\ rWorld.capitals[name].bindings # <<>>
    THEN rWorld.capitals[name].bindings[1] ELSE <<>>

\* "<capital>, <country>", or "<capital>" when no country is known
CapitalQuery ==
    LET country == IF rWorld.bestArea.id = <<>> THEN <<>>
                   ELSE resolveAreaContext(rWorld, rWorld.bestArea.id, 0)
                            .val.country
        capital == CapitalOf(rWorld.bestArea.name)
    IN  IF country # <<>> THEN capital \o <<",", " ">> \o country
        ELSE capital

\* a geocoder was asked for a string that starts with the area name
AreaNameAsked ==
    \E i \in 1..Len(rOut.calls) :
        LET call == rOut.calls[i]
            name == rWorld.bestArea.name
        IN  /\ call.svc \in { "nominatim", "photon" }
            /\ Len(call.arg) >= Len(name)
            /\ SubSeq(call.arg, 1, Len(name)) = name

\* C30: for an area of type Subdivision, geocodeMusicBrainzResult asks the
\* SPARQL endpoint for the capital of the area name and, if a capital is
\* found and "<capital>, <country>" (or "<capital>" alone when no country
\* is known) geocodes, returns that result; only when no capital is found
\* or its geocoding fails does it fall through to the area-name queries.
C30_SubdivisionSnapsToCapital ==
    LET area == rWorld.bestArea
        snap == geocodeLocation(rWorld, CapitalQuery).val
        snapped == CapitalOf(area.name) # <<>> /\ snap.found
    IN  (rPhase = "done" /\ toLowerCase(area.type) = Subdivision) =>
            /\ \E i \in 1..Len(rOut.calls) :
                   rOut.calls[i] = Call("sparql_capital", area.name)
            /\ CapitalOf(area.name) # <<>> =>
                   \E i \in 1..Len(rOut.calls) :
                       rOut.calls[i] = Call("nominatim", CapitalQuery)
            /\ snapped => rOut.val = snap /\ ~AreaNameAsked
            /\ ~snapped => AreaNameAsked

\* "Wa" has the capital "Pe" and lies in "Oz": the result is that of
\* geocoding "Pe, Oz" and no geocoder is asked for "Wa"
C30_Witness ==
    /\ rPhase = "done"
    /\ rWorld.bestArea = SubdivisionWa
    /\ CapitalQuery = Pe \o <<",", " ">> \o Oz
    /\ rOut.val.found
    /\ rOut.val.coords = << 21, 22 >>
    /\ ~AreaNameAsked

\* the context of the area being geocoded
SnapContext ==
    IF rWorld.bestArea.id = <<>> THEN [val |-> NoContext, calls |-> <<>>]
    ELSE resolveAreaContext(rWorld, rWorld.bestArea.id, 0)

\* the requests geocodeMusicBrainzResult makes before the area-name queries
BeforeAreaQueries ==
    SnapContext.calls \o
    (IF toLowerCase(rWorld.bestArea.type) = Subdivision
     THEN << Call("sparql_capital", rWorld.bestArea.name) >> \o
          (IF CapitalOf(rWorld.bestArea.name) # <<>>
           THEN geocodeLocation(rWorld, CapitalQuery).calls ELSE <<>>)
     ELSE <<>>)

\* the capital snap returned a result
Snapped ==
    /\ toLowerCase(rWorld.bestArea.type) = Subdivision
    /\ CapitalOf(rWorld.bestArea.name) # <<>>
    /\ geocodeLocation(rWorld, CapitalQuery).val.found

\* the query forms that apply to the area, in the order of the claim
QueryForms ==
    LET name == rWorld.bestArea.name
        s == SnapContext.val.subdivision
        c == SnapContext.val.country
        sep == <<",", " ">>
    IN  SelectSeq(<< [known |-> s # <<>> /\ c # <<>>,
                      query |-> name \o sep \o s \o sep \o c],
                     [known |-> s # <<>>, query |-> name \o sep \o s],
                     [known |-> c # <<>>, query |-> name \o sep \o c],
                     [known |-> TRUE, query |-> name] >>,
                  LAMBDA form : form.known)

RECURSIVE FormRequests(_)
FormRequests(k) ==
    IF k = 0 THEN <<>>
    ELSE FormRequests(k - 1) \o
         geocodeLocation(rWorld, QueryForms[k].query).calls

\* C31: geocodeMusicBrainzResult tries the query strings "<name>,
\* <subdivision>, <country>", "<name>, <subdivision>", "<name>, <country>",
\* "<name>" in that order, skipping the forms whose context part is unknown,
\* returns the first non-null geocode, and returns null only if every tried
\* form failed.
C31_QueryFormsInOrder ==
    (rPhase = "done" /\ ~Snapped) =>
        \E k \in 1..Len(QueryForms) :
            LET geo(i) == geocodeLocation(rWorld, QueryForms[i].query).val
            IN  /\ rOut.calls = BeforeAreaQueries \o FormRequests(k)
                /\ \A i \in 1..(k - 1) : ~geo(i).found
                /\ rOut.val = geo(k)
                /\ ~rOut.val.found => k = Len(QueryForms)

\* the city lies in a known subdivision and country; the first two forms
\* fail and the third, "<name>, <country>", gives the result
C31_Witness ==
    /\ rPhase = "done"
    /\ rWorld.bestArea = CityPa
    /\ Len(QueryForms) = 4
    /\ rOut.calls = BeforeAreaQueries \o FormRequests(3)
    /\ rOut.val.found
    /\ rOut.val.coords = << 11, 12 >>

\* the direct geocode of the scraped location
DirectGeocode == geocodeLocation(rWorld, rWorld.wikiLocation.full)

\* the geocode of "<capital>, <original>", null without a capital
CapitalGeocode ==
    LET capital == CapitalOf(rWorld.wikiLocation.first)
    IN  IF capital = <<>> THEN NoGeo
        ELSE geocodeLocation(rWorld,
                 capital \o <<",", " ">> \o rWorld.wikiLocation.full).val

NamedBy(geo) ==
    [location_name |-> geo.displayName, location_coord |-> geo.coords]

\* C32: on the encyclopedia path, a capital lookup for the first comma
\* segment of the scraped location is made only if the direct geocode failed
\* or is not city-level; the geocode of "<capital>, <original>" replaces the
\* direct result only if it succeeds, otherwise the direct result (or the
\* raw string with null coordinates) is kept; a city-level direct geocode is
\* always returned unchanged.
C32_CapitalSnapOnlyWhenNotCity ==
    LET direct == DirectGeocode.val
        cityLevel == isCityLevelGeocode(direct)
        lookups == SelectSeq(rOut.calls,
                             LAMBDA call : call.svc = "sparql_capital")
    IN  rPhase = "done" =>
            /\ lookups # <<>> =>
                   /\ ~direct.found \/ ~cityLevel
                   /\ lookups =
                          << Call("sparql_capital", rWorld.wikiLocation.first) >>
            /\ cityLevel =>
                   /\ rOut.val = NamedBy(direct)
                   /\ rOut.calls = DirectGeocode.calls
            /\ ~cityLevel =>
                   rOut.val =
                       IF CapitalGeocode.found THEN NamedBy(CapitalGeocode)
                       ELSE IF direct.found THEN NamedBy(direct)
                       ELSE [location_name |-> rWorld.wikiLocation.full,
                             location_coord |-> <<>>]

\* "Wa, Oz" geocodes to a state, its capital "Pe" is known, "Pe, Wa, Oz"
\* cannot be geocoded, and the state is kept
C32_Witness ==
    /\ rPhase = "done"
    /\ DirectGeocode.val.found
    /\ ~isCityLevelGeocode(DirectGeocode.val)
    /\ CapitalOf(rWorld.wikiLocation.first) = Pe
    /\ ~CapitalGeocode.found
    /\ rOut.val = NamedBy(DirectGeocode.val)

\* the step-by-step run returns what the recursive definition returns
ContextAgrees ==
    rPhase = "done" =>
        LET direct == resolveAreaContext(rWorld, <<"a1">>, 0)
        IN  rOut.val = direct.val /\ rOut.calls = direct.calls

\* no area lookup is issued at a recursion depth greater than 5
LookupDepthBounded ==
    \A i \in 1..Len(rOut.depths) : rOut.depths[i] <= 5

\* a call entered beyond the bound returns {country: null, subdivision:
\* null}
BoundYieldsNull ==
    \A i \in 1..Len(rOut.frames) :
        (rOut.frames[i].depth > 5 /\ rOut.frames[i].pc # "enter") =>
            /\ rOut.frames[i].pc = "return"
            /\ rOut.frames[i].ret = [country |-> <<>>, subdivision |-> <<>>]

\* C33: resolveAreaContext terminates for every area graph, including cyclic
\* "part of" chains: it never issues an area lookup at recursion depth
\* greater than 5 and yields {country: null, subdivision: null} for a branch
\* that hits the bound.
C33_ContextTerminates ==
    /\ [](LookupDepthBounded /\ BoundYieldsNull)
    /\ <>(rPhase = "done")

\* a1 and a2 are part of each other: six lookups, the last at depth 5, and
\* no context
C33_Witness ==
    /\ rPhase = "done"
    /\ rOut.depths = << 0, 1, 2, 3, 4, 5 >>
    /\ rOut.calls[1] = rOut.calls[3]
    /\ rOut.calls[2] = rOut.calls[6]
    /\ rOut.calls[1] # rOut.calls[2]
    /\ rOut.val = NoContext

\* the answer to the lookup of the area the call is made for
RootArea == rWorld.areas[<<"a1">>]

\* its backward "part of" parents, in the order of the response
DirectParents ==
    SelectSeq(RootArea.relations,
              LAMBDA rel : rel.type = <<"part of">>
                           /\ rel.direction = <<"backward">>)

Coded(rel) == rel.area.iso1 # <<>> \/ rel.area.iso2 # <<>>

\* what a coded parent decides
DecidedBy(rel) ==
    [country |-> countryCodeToName(extractCountryCode(rel.area)),
     subdivision |-> IF rel.area.type = <<"S","u","b","d","i","v","i","s","i","o","n">>
                     THEN rel.area.name ELSE <<>>]

\* the ids looked up at recursion depth 1, in order
Recursions ==
    LET at == SelectSeq([i \in 1..Len(rOut.calls) |->
                            [id |-> rOut.calls[i].arg,
                             depth |-> rOut.depths[i]]],
                        LAMBDA c : c.depth = 1)
    IN  [i \in 1..Len(at) |-> at[i].id]

RootWithoutCode ==
    /\ rPhase = "done"
    /\ RootArea.ok
    /\ RootArea.iso1 = <<>> /\ RootArea.iso2 = <<>>

\* C34 as stated: when the area itself carries no ISO code, a direct
\* backward "part of" parent that carries ISO codes decides the result
\* (country from its code, subdivision = its name iff its type is
\* Subdivision) without any recursion; the walk recurses only if no direct
\* parent carries codes, and then only into the first parent.
C34_CodedParentDecides ==
    RootWithoutCode =>
        LET coded == SelectSeq(DirectParents, Coded)
        IN  /\ coded # <<>> =>
                   rOut.val = DecidedBy(coded[1]) /\ Recursions = <<>>
            /\ Recursions # <<>> =>
                   coded = <<>> /\ Recursions = << DirectParents[1].area.id >>

\* parent i ends the walk: it carries codes, or the recursion into it
\* yields a country
Decides(i) ==
    \/ Coded(DirectParents[i])
    \/ resolveAreaContext(rWorld, DirectParents[i].area.id, 1)
           .val.country # <<>>

\* C34: when the area itself carries no ISO code, its backward "part of"
\* parents are examined in order: a parent that carries ISO codes decides
\* the result (country from its code, subdivision = its name iff its type
\* is Subdivision) without recursion into it; a parent without codes is
\* recursed into and decides the result if that yields a country; the next
\* parent is examined only otherwise.
C34_ParentsExaminedInOrder ==
    RootWithoutCode =>
        LET deciding == { i \in 1..Len(DirectParents) : Decides(i) }
            last == IF deciding = {} THEN Len(DirectParents)
                    ELSE CHOOSE i \in deciding : \A j \in deciding : i <= j
            examined == SubSeq(DirectParents, 1, last)
            uncoded == SelectSeq(examined, LAMBDA rel : ~Coded(rel))
            up == resolveAreaContext(rWorld, DirectParents[last].area.id, 1)
                      .val
        IN  /\ Recursions = [i \in 1..Len(uncoded) |-> uncoded[i].area.id]
            /\ rOut.val =
                   IF deciding = {} THEN NoContext
                   ELSE IF Coded(DirectParents[last])
                   THEN DecidedBy(DirectParents[last])
                   ELSE [country |-> up.country,
                         subdivision |->
                             IF up.subdivision = <<>>
                                /\ DirectParents[last].area.type =
                                       <<"S","u","b","d","i","v","i","s","i","o","n">>
                             THEN DirectParents[last].area.name
                             ELSE up.subdivision]

\* a1 is part of a2, which has no code in the relation, and of a3, which
\* has one: a2 is looked up first and decides the result
C34_Witness ==
    /\ RootWithoutCode
    /\ Len(DirectParents) = 2
    /\ ~Coded(DirectParents[1])
    /\ Coded(DirectParents[2])
    /\ Recursions = << <<"a2">> >>
    /\ rOut.val.country # <<>>
    /\ rOut.val # DecidedBy(DirectParents[2])

\* C35: within one POST /api/artists request, any two successive requests
\* to MusicBrainz (artist search, area lookup, artist lookup) are at least
\* 1,100 ms apart, including the last such request made for one artist and
\* the artist search made for the next artist of the batch.
C35_MusicBrainzPaced ==
    rOut.shortest # <<>> => rOut.shortest[1] >= 1100

-----------------------------------------------------------------------------
(* One upstream call against every status the service can answer with.     *)

\* every upstream request of the pipeline, by the service it goes to
UpstreamServices ==
    MusicBrainzServices \cup
    { "sparql_person", "sparql_band", "sparql_capital", "wiki_search",
      "wiki_parse", "nominatim", "photon" }

\* the call has not been made
NoUpstream == [fetches |-> <<>>, outcome |-> "none"]

InitTransient ==
    /\ rName \in UpstreamServices
    /\ rWorld = <<>>
    /\ rOut = NoUpstream
    /\ rPhase = "start"
    /\ fw = NoFetch
    /\ hasCache = FALSE
    /\ cache = [key \in CacheKeys |-> <<>>]
    /\ req = [r \in AllRequests |-> IdleRequest]

\* the requests to MusicBrainz go through fetchWithRetry(url, options)
CallWithRetry ==
    /\ rPhase = "start"
    /\ rName \in MusicBrainzServices
    /\ fw' = [NoFetch EXCEPT !.pc = "loop", !.maxRetries = DefaultMaxRetries]
    /\ rPhase' = "fetching"
    /\ UNCHANGED <<rName, rWorld, rOut, workerVars>>

\* if (!response || !response.ok) return null; an exception of fetch is
\* caught and null is returned
RetryReturn ==
    /\ rPhase = "fetching"
    /\ fw.pc \in { "done", "threw" }
    /\ rOut' = [fetches |-> fw.statuses,
                outcome |-> IF fw.pc = "done" /\ fw.ret = "response"
                               /\ isOk(fw.status)
                            THEN "answer" ELSE "miss"]
    /\ rPhase' = "done"
    /\ UNCHANGED <<rName, rWorld, fw, workerVars>>

\* the other requests are one fetch(url, options): if (!response.ok) return
\* null
PlainCall ==
    /\ rPhase = "start"
    /\ rName \notin MusicBrainzServices
    /\ \E status \in Statuses :
        rOut' = [fetches |-> << status >>,
                 outcome |-> IF isOk(status) THEN "answer" ELSE "miss"]
    /\ rPhase' = "done"
    /\ UNCHANGED <<rName, rWorld, fw, workerVars>>

NextTransient ==
    \/ CallWithRetry
    \/ FetchAnswer
    \/ FetchThrow
    \/ FetchExhausted
    \/ RetryReturn
    \/ PlainCall

\* one upstream call of each service against every sequence of statuses
SpecTransient == InitTransient /\ [][NextTransient]_vars

\* C36: every upstream HTTP call (MusicBrainz, SPARQL, Wikipedia search and
\* parse, Nominatim, Photon) that is answered 429 or 503 is fetched again
\* before it is treated as a miss: no call that ended as a miss made one
\* fetch only when that fetch was answered with a transient status.
C36_TransientRetried ==
    (/\ rPhase = "done"
     /\ rOut.outcome = "miss"
     /\ rOut.fetches # <<>>
     /\ rateLimited(rOut.fetches[1]))
        => Len(rOut.fetches) >= 2

\* how many elements of a sequence of names are the given name
Occurrences(names, name) ==
    Cardinality({ j \in 1..Len(names) : names[j] = name })

\* the artist fields of the lines of a stream, in order
ArtistFields(stream) == [j \in 1..Len(stream) |-> stream[j].artist]

\* C37: when no exception occurs, the closed stream of a POST /api/artists
\* request has exactly one line for each element of the truncated input
\* array, duplicates included: as many lines as elements, and every name is
\* the artist field of as many lines as it has occurrences in the input.
C37_OneLinePerElement ==
    \A r \in Requests :
        LET q == req[r] IN
        (q.closed /\ q.method = "POST" /\ ~q.thrown /\ ~q.cancelled) =>
            /\ Len(q.stream) = Len(q.limitedArtists)
            /\ \A name \in ArtistNames :
                Occurrences(ArtistFields(q.stream), name)
                    = Occurrences(q.limitedArtists, name)

\* the DELETE /api/cache request has been answered 200
DeleteAnswered == req["r2"].pc = "done" /\ req["r2"].status = 200

\* the POST request was under way when the DELETE request arrived
PostInFlight == "r1" \in req["r2"].overlapped

\* the keys of the names the DELETE request reports as deleted
KeysDeleted ==
    { cacheKey(req["r2"].deleted[j]) : j \in 1..Len(req["r2"].deleted) }

\* the entry under the key is the value of a put the POST request made
WrittenByPost(key) ==
    \E c \in 1..Len(req["r1"].puts) :
        LET put == req["r1"].puts[c] IN
        put.ok /\ put.key = key /\ cache[key] = << put.value >>

\* C38 as stated: once the DELETE /api/cache response for a name has been
\* produced, a POST that was already in flight when the DELETE arrived cannot
\* re-create the entry: with no later POST the key stays absent.
C38_InFlightPostCannotRecreate ==
    (DeleteAnswered /\ PostInFlight) =>
        \A key \in KeysDeleted : cache[key] = <<>>

\* C38: once the DELETE /api/cache response for a name has been produced,
\* the key of that name is absent from the cache unless a POST request has
\* written the result it resolved for the name under it; the POST may be one
\* that was already in flight when the DELETE arrived.
C38_AbsentUnlessPostWrites ==
    DeleteAnswered =>
        \A key \in KeysDeleted : cache[key] = <<>> \/ WrittenByPost(key)

\* the DELETE was answered while the POST was in flight, the POST then wrote
\* its result, and the key is in the cache again
C38_Witness ==
    /\ DeleteAnswered
    /\ PostInFlight
    /\ req["r1"].pc = "done"
    /\ \E key \in KeysDeleted : cache[key] # <<>> /\ WrittenByPost(key)

\* every encyclopedia source came back without a location
NoSourceLocation == \A i \in 2..5 : Sources[i].val = <<>>

\* resolveArtistLocation hands an area to geocodeMusicBrainzResult: the
\* candidate's city-level area at once, or else the area left after
\* traversal if it is city-level or no encyclopedia source has a location
AreaIsGeocoded ==
    /\ rPhase = "done"
    /\ FirstResult.kind = "found"
    /\ \/ (FirstArea # NoArea /\ isCityLevel(FirstArea.type))
       \/ (LastArea # NoArea
           /\ (isCityLevel(LastArea.type) \/ NoSourceLocation))

\* the area handed to geocodeMusicBrainzResult
GeocodedArea ==
    IF FirstArea # NoArea /\ isCityLevel(FirstArea.type) THEN FirstArea
    ELSE LastArea

\* C39: the area resolveArtistLocation finally geocodes is never less
\* specific, by areaSpecificity, than the best area of the candidate the
\* search returned: relationship traversal replaces the candidate's area
\* only by an area of equal or higher specificity.
C39_NeverLessSpecific ==
    AreaIsGeocoded =>
        areaSpecificity(GeocodedArea.type) >= areaSpecificity(FirstArea.type)

\* one of the two geocoders has a hit for the query string
Geocodes(query) ==
    \E table \in { rWorld.nominatim, rWorld.photon } :
        /\ query \in DOMAIN table
        /\ table[query].ok
        /\ table[query].found

\* the result geocodeMusicBrainzResult returned is the answer to a request
\* for the bare name of the context country, for an area that is not the
\* country itself
ReturnedBareCountry ==
    /\ rPhase = "done"
    /\ rOut.val.found
    /\ SnapContext.val.country # <<>>
    /\ rWorld.bestArea.name # SnapContext.val.country
    /\ rOut.calls[Len(rOut.calls)].arg = SnapContext.val.country

\* C40: geocodeMusicBrainzResult returns a result obtained by geocoding the
\* bare country name only after every query form that contains the area name
\* and applies ("<name>, <subdivision>, <country>", "<name>, <subdivision>",
\* "<name>, <country>", "<name>") has failed with both geocoders.
C40_CountryOnlyAfterEveryForm ==
    ReturnedBareCountry =>
        \A k \in 1..Len(QueryForms) : ~Geocodes(QueryForms[k].query)

\* the city is returned as its country although its bare name geocodes
CountryBeforeBareName ==
    /\ ReturnedBareCountry
    /\ rWorld.bestArea = CityPa
    /\ Len(QueryForms) = 4
    /\ Geocodes(Pa)
    /\ rOut.calls = BeforeAreaQueries \o FormRequests(1)

====
